---- MODULE Spec2Model ----
(***************************************************************************)
(* A model of libmprompt's prompt/resumption primitive (src/mprompt/       *)
(* mprompt.c): prompts that live at the base of their own growable stack,  *)
(* the thread's prompt chain, one-shot and multi-shot resumptions.         *)
(*                                                                         *)
(* Every C function is an operator from machine state to machine state.    *)
(* The machine state is the record St; an operator that meets a failing    *)
(* mp_assert in a build with assertions stops there (status "assert") and  *)
(* keeps the writes made before it.  A stack is a sequence of frames; a    *)
(* jmpbuf is the location <<stack, index>> of the frame that holds it, and *)
(* a longjmp cuts the target stack back to that frame.                     *)
(***************************************************************************)
EXTENDS Integers, Sequences, FiniteSets, TLC

\* ---- bounds of the model ------------------------------------------------
MaxPrompts == 2      \* prompts (and so gstacks) ever created
MaxYields  == 2      \* yields (one-shot or multi-shot) ever performed
MaxVal     == 2      \* values passed around are 1..MaxVal
MaxFinally == 1      \* finally frames ever pushed
MaxMres    == 3      \* multi-shot resumption records ever allocated
MaxDup     == 2      \* largest reference count of a multi-shot resumption
MaxResumes == 3      \* multi-shot resumes ever performed
MaxMPrompts == 1     \* prompts created by a program that uses multi-shot resumptions

NULL   == 0
NoPt   == <<>>                      \* a NULL mp_return_point_t* / mp_resume_point_t*
Vals   == 1..MaxVal
\* the test programs create up to four prompts, more than the clients that do anything
MaxIds == MaxPrompts + 2
PIds   == 1..MaxIds                 \* prompt p lives at the base of gstack p
GIds   == 0..MaxIds                 \* gstack 0 is the thread's system stack
MaxMIds == MaxMres + 2               \* the test programs allocate more records
MIds   == 1..MaxMIds

VARIABLES
  debug,      \* TRUE: a build with assertions (NDEBUG not defined)
  status,     \* "ok", or how the process ended: "assert", "ub"
  failed,     \* the assertion that failed
  top,        \* _mp_prompt_top
  prompts,    \* the mp_prompt_t records
  stacks,     \* the frames on every gstack
  cur,        \* the gstack the thread executes on
  mres,       \* the mp_mresume_t records
  gs,         \* per prompt: st (none/fresh/entered), freed (calls of mp_gstack_free), gen (yields to it)
  used,       \* one-shot resumptions <<p, gen>> that were resumed or dropped
  fin,        \* per finally frame: "none", "pending", "released"
  hist,       \* counters: yields, resumes
  last,       \* the operation that just completed, for the properties
  cpp,        \* TRUE: the library is compiled as C++ (__cplusplus, MPE_HAS_TRY)
  mpe_frame_top, \* the top of the handler shadow stack (mpeff.c)
  rel,        \* per finally frame: the calls of its release function
  ecnt,       \* counters of the effect-handler client: performs, masks, throws
  gstk        \* gstack.c: its settings, the thread's cache and delayed-free list, the OS

vars == <<debug, status, failed, top, prompts, stacks, cur, mres, gs, used, fin, hist, last,
          cpp, mpe_frame_top, rel, ecnt, gstk>>

\* The machine state as one record
St == [debug |-> debug, status |-> status, failed |-> failed, top |-> top,
       prompts |-> prompts, stacks |-> stacks, cur |-> cur, mres |-> mres,
       gs |-> gs, used |-> used, fin |-> fin, hist |-> hist, last |-> last,
       cpp |-> cpp, mpe_frame_top |-> mpe_frame_top, rel |-> rel, ecnt |-> ecnt,
       gstk |-> gstk]

Apply(s) ==
  /\ debug' = s.debug /\ status' = s.status /\ failed' = s.failed /\ top' = s.top
  /\ prompts' = s.prompts /\ stacks' = s.stacks /\ cur' = s.cur /\ mres' = s.mres
  /\ gs' = s.gs /\ used' = s.used /\ fin' = s.fin /\ hist' = s.hist /\ last' = s.last
  /\ cpp' = s.cpp /\ mpe_frame_top' = s.mpe_frame_top /\ rel' = s.rel /\ ecnt' = s.ecnt
  /\ gstk' = s.gstk

\* ---- frames ----------------------------------------------------------------
\* kind: "main"   client code on the system stack
\*       "resume" an activation of mp_prompt_resume; holds the mp_return_point_t `ret`
\*       "entry"  mp_prompt_stack_entry running the client's start function
\*       "yield"  an activation of mp_yield_internal; holds the mp_resume_point_t `res`
\*       "yfn"    the client's yield function running under mp_prompt_exec_yield_fun
\*       "finally" a client frame with a registered release action
\* and, of the effect-handler layer (mpeff.c):
\*       "handle"  mpe_handle_start running the body; holds the mpe_frame_handle_t `h`
\*       "mask"    mpe_mask running its body; holds the mpe_frame_mask_t
\*       "under"   mpe_perform_under; holds the mpe_frame_under_t
\*       "mfinally" mpe_finally running its body; holds the mpe_frame_finally_t
\*       "opfun"   an operation function running in place (INPLACE resumption)
\*       "perform" an activation of mpe_perform_yield_to (above it the "yield" frame)
\*       "abort"   an activation of mpe_perform_yield_to_abort
Frame(kind) ==
  [kind |-> kind,
   p    |-> NULL,     \* resume: prompt resumed; entry: own prompt; yield: target; yfn: the resumption
   rk   |-> "none",   \* ret.kind (resume) / the kind of resumption (yield, yfn)
   arg  |-> 0,        \* ret.arg (resume) / the argument (entry, yield, yfn)
   res  |-> 0,        \* res.result (yield)
   loc  |-> 0,        \* a local variable of the client code
   h    |-> 0,        \* yfn: generation of the one-shot resumption, or the mp_mresume_t
   fid  |-> 0,        \* finally: which finally frame
   fresh |-> FALSE,   \* yfn: has done nothing yet
   init |-> FALSE,    \* resume: pushed by mp_prompt_enter (not by a resume)
   tp   |-> NULL,     \* resume, yield: _mp_prompt_top when the call was made
   chain |-> <<>>,    \* yield: the prompt chain when the call was made
   eff  |-> 0,        \* handle: frame.effect; mask: the masked effect; under: the effect
   fparent |-> <<>>,  \* handle, mask, under, mfinally: frame.parent
   local |-> 0,       \* handle: h.local; yfn: env->local
   from |-> 0,        \* mask: from
   opk  |-> "none",   \* handle: the kind of the operations of hdef; yfn, perform: rkind
   hloc |-> <<>>,     \* opfun, perform, abort, yfn: the handle frame `h`
   rtop |-> <<>>,     \* perform: resume_top
   own  |-> FALSE,    \* opfun, yfn: the resumption it was given is still its to use
   fl   |-> <<>>,     \* opfun: the shadow stack when the operation was performed
   pc   |-> 0]        \* handle: where the body of the counter program is

ClientKinds == {"main", "entry", "yfn", "finally"}

NoPrompt == [parent |-> NULL, top |-> NULL, refcount |-> 0,
             return_point |-> NoPt, resume_point |-> NoPt]
NoMres   == [alloc |-> "none", refcount |-> 0, resume_count |-> 0, prompt |-> NULL,
             save |-> <<>>, tail_return_point |-> NoPt, snap |-> <<>>]
\* op: the call; p: its prompt; v: the value passed in; rv: the value returned;
\* flag: see the call; tp0/tp1, chain0/chain1: top and chain before and after;
\* act0: p was active before; prm0: <<prompts, top>> before; fin0: finally frames captured;
\* h: the handle frame; e: the effect; k: the kind of operation or resumption; nl, nv: the
\* new local and the value given to a resume; fl0/fl1: the shadow stack before and after;
\* tr: what the operation did, in order; g0: the stack the call was made on;
\* fb: the mpe_finally frames between the perform site and the handler (perform), of
\* the captured computation (release); fg: the stack each mpe_finally frame is on
NoEvent  == [op |-> "none", p |-> NULL, v |-> 0, rv |-> 0, flag |-> FALSE,
             tp0 |-> NULL, tp1 |-> NULL, chain0 |-> <<>>, chain1 |-> <<>>,
             act0 |-> FALSE, prm0 |-> <<>>, fin0 |-> {},
             h |-> <<>>, e |-> 0, nl |-> 0, nv |-> 0, fl0 |-> <<>>, fl1 |-> <<>>,
             k |-> "none", tr |-> <<>>, g0 |-> 0, fb |-> {}, fg |-> <<>>]

Ok(s) == s.status = "ok"

\* mp_assert / mp_assert_internal: assert(x), compiled away under NDEBUG
mp_assert(s, cond, name) ==
  IF Ok(s) /\ s.debug /\ ~cond
    THEN [s EXCEPT !.status = "assert", !.failed = name]
    ELSE s

\* the running code touches memory it may not touch (a dangling jmpbuf)
Undefined(s, name) ==
  IF Ok(s) THEN [s EXCEPT !.status = "ub", !.failed = name] ELSE s

TopFrame(s) == s.stacks[s.cur][Len(s.stacks[s.cur])]

\* the value `v` is returned to the client frame on top of the current stack
Deliver(s, v) ==
  IF ~Ok(s) THEN s ELSE [s EXCEPT !.last.rv = v]

Push(s, f) == [s EXCEPT !.stacks[s.cur] = Append(@, f)]
Pop(s)     == [s EXCEPT !.stacks[s.cur] = SubSeq(@, 1, Len(@) - 1)]

\* the running client frame does something: a yield function is no longer fresh
Act(s) == [s EXCEPT !.stacks[s.cur][Len(s.stacks[s.cur])].fresh = FALSE]

\* ---- gstack.c: growable stacks, their cache, their memory ---------------------------
\* Sizes and addresses are in KiB.

MaxG == 2            \* gstack records ever allocated (mp_malloc in mp_gstack_alloc)

MP_KIB == 1
MP_MIB == 1024
MP_GIB == 1048576
MP_GPOOL_MAX_COUNT == 32000
SizeofGpool == 63    \* sizeof(mp_gpool_t), rounded up: 32000 int16_t and the header
PageSize == 4        \* sysconf(_SC_PAGESIZE)
MmapBase == 4096     \* the lowest address at which the OS places a mapping
SysSp == 2000000000  \* the stack pointer on the system stack, above every mapping

GIdx == 1..MaxG

mp_align_up(x, d)   == IF d = 0 THEN x ELSE ((x + d - 1) \div d) * d
mp_align_down(x, d) == IF d = 0 THEN x ELSE (x \div d) * d

\* an mp_gstack_t: st is where the record is ("none": not allocated, "malloced": being
\* set up by mp_gstack_alloc, "out": handed to the caller, "cache", "delayed", "freed":
\* released with mp_free)
NoGstack == [st |-> "none", full |-> 0, full_size |-> 0, stack |-> 0, stack_size |-> 0,
             initial_commit |-> 0, committed |-> 0, extra_size |-> 0, pooled |-> FALSE]

\* the statics of gstack.c as the program starts, the thread-locals, and the OS:
\* config: the mp_config_t given to mp_gstack_init (<<>>: none yet)
\* cache, delayed: _mp_gstack_cache, _mp_gstack_delayed_free as lists of records
\* maps: the ranges reserved with mmap; pools: the list mp_gpools, head first
\* uncaught: std::uncaught_exception(); current: mp_gstack_current() (0: NULL)
\* ret, errno: what the last call returned; diag: the messages printed
\* out: the out-parameters of the allocation in progress
\* sig: the page-fault handler is installed; prev: a handler was installed before it
\* fault: the address of the write that is faulting (0: none); faults: handler runs;
\* fgap: that address is in a gap; gap_rw: pages of a gap were made accessible
\* refused: the OS refused memory to the last mp_gstack_alloc
\* win: the process runs on Windows (gstack_win.c handles its faults)
\* thr: the threads that work on the gpools at the same time, each with its position in
\* mp_gpool_allocx, mp_gpool_free or mp_gpool_create and its local variables (none in a
\* single-threaded program); lin: what those calls give when made one after the other
\* mp_gpools, next: the list of gpools as those threads link it
\* ev: the last call of the interface and what was there as it started
GstkStart ==
  [os_use_gpools |-> TRUE, os_use_overcommit |-> FALSE, os_page_size |-> 0,
   os_gstack_initial_commit |-> 0, os_gstack_size |-> 8 * MP_MIB,
   os_gstack_gap |-> 64 * MP_KIB, os_gstack_reset_decommits |-> FALSE,
   os_gstack_grow_fast |-> TRUE, os_gstack_cache_max_count |-> 4,
   os_gstack_exn_guaranteed |-> 32 * MP_KIB, os_gpool_max_size |-> 256 * MP_GIB,
   config |-> <<>>,
   cache |-> <<>>, cache_count |-> 0, delayed |-> <<>>,
   g |-> [i \in GIdx |-> NoGstack],
   maps |-> {}, pools |-> <<>>,
   uncaught |-> FALSE, current |-> 0,
   ret |-> 0, errno |-> "", diag |-> {},
   out |-> [full |-> 0, stk |-> 0, stk_size |-> 0, initial_commit |-> 0],
   sig |-> FALSE, prev |-> FALSE, fault |-> 0, faults |-> 0, fgap |-> FALSE,
   gap_rw |-> FALSE, refused |-> FALSE, win |-> FALSE, ev |-> [op |-> ""],
   thr |-> <<>>, lin |-> <<>>, mp_gpools |-> 0, next |-> <<>>]

\* mp_config_t (mprompt.h) with the fields that mp_gstack_init reads
ZeroConfig ==
  [gpool_enable |-> FALSE, stack_grow_fast |-> FALSE, stack_use_overcommit |-> FALSE,
   stack_reset_decommits |-> FALSE, gpool_max_size |-> 0, stack_max_size |-> 0,
   stack_exn_guaranteed |-> 0, stack_initial_commit |-> 0, stack_gap_size |-> 0,
   stack_cache_count |-> 0]

\* mp_config_default (not Windows), called before the library is initialized
mp_config_default ==
  [gpool_enable |-> TRUE, stack_grow_fast |-> TRUE, stack_use_overcommit |-> FALSE,
   stack_reset_decommits |-> FALSE,
   gpool_max_size |-> GstkStart.os_gpool_max_size,
   stack_max_size |-> GstkStart.os_gstack_size,
   stack_exn_guaranteed |-> GstkStart.os_gstack_exn_guaranteed,
   stack_initial_commit |-> GstkStart.os_gstack_initial_commit,
   stack_gap_size |-> GstkStart.os_gstack_gap,
   stack_cache_count |-> GstkStart.os_gstack_cache_max_count]

\* mp_gstack_os_init (gstack_mmap.c, Linux): page size, overcommit (oc: what
\* /proc/sys/vm/overcommit_memory allows), then mp_gpools_process_init installs the
\* page-fault handler (prev: the process had a SIGSEGV handler before)
mp_gstack_os_init(t, oc, prev) ==
  LET overcommit == ~(t.os_use_gpools \/ t.os_gstack_grow_fast) /\ oc
      installed  == ~(~t.os_use_gpools /\ overcommit)
  IN [t EXCEPT !.os_page_size = PageSize,
               !.os_use_overcommit = overcommit,
               !.sig = installed, !.prev = installed /\ prev]

\* the user settings of mp_gstack_init
mp_gstack_init_config(t, config) ==
  IF config = <<>> THEN t
  ELSE LET c == config[1] IN
    [t EXCEPT
       !.os_gstack_reset_decommits = c.stack_reset_decommits,
       !.os_use_overcommit = c.stack_use_overcommit,
       !.os_use_gpools = IF c.stack_use_overcommit THEN FALSE ELSE c.gpool_enable,
       !.os_gstack_grow_fast = IF c.stack_use_overcommit THEN FALSE ELSE c.stack_grow_fast,
       !.os_gpool_max_size = IF c.gpool_max_size > 0
                               THEN mp_align_up(c.gpool_max_size, 64 * MP_KIB) ELSE @,
       !.os_gstack_size = IF c.stack_max_size > 0
                            THEN mp_align_up(c.stack_max_size, 4 * MP_KIB) ELSE @,
       !.os_gstack_exn_guaranteed = IF c.stack_exn_guaranteed > 0
                            THEN mp_align_up(c.stack_exn_guaranteed, 4 * MP_KIB) ELSE @,
       !.os_gstack_initial_commit = IF c.stack_initial_commit > 0
                            THEN mp_align_up(c.stack_initial_commit, 4 * MP_KIB) ELSE @,
       !.os_gstack_gap = IF c.stack_gap_size > 0
                            THEN mp_align_up(c.stack_gap_size, 4 * MP_KIB) ELSE @,
       !.os_gstack_cache_max_count = IF c.stack_cache_count >= 0 THEN c.stack_cache_count
                                     ELSE 0]

\* ensure stack sizes are page aligned
mp_gstack_init_align(t) ==
  LET commit == IF t.os_gstack_initial_commit = 0 THEN t.os_page_size
                ELSE mp_align_up(t.os_gstack_initial_commit, t.os_page_size)
      size   == mp_align_up(t.os_gstack_size, t.os_page_size)
  IN [t EXCEPT
        !.os_gstack_size = size,
        !.os_gstack_exn_guaranteed = mp_align_up(@, t.os_page_size),
        !.os_gstack_gap = mp_align_up(@, t.os_page_size),
        !.os_gpool_max_size = mp_align_up(@, t.os_page_size),
        !.os_gstack_initial_commit = IF commit > size THEN size ELSE commit]

\* Init (called by mp_init and mp_gstack_alloc); config = <<>> is NULL
mp_gstack_init(s, config, oc, prev) ==
  IF ~Ok(s) \/ s.gstk.os_page_size # 0 THEN s
  ELSE [s EXCEPT !.gstk = mp_gstack_init_align(
                             mp_gstack_os_init(mp_gstack_init_config(@, config), oc, prev)),
                 !.gstk.config = config]

\* what the OS answers to the calls of one mp_gstack_alloc: malloc of the record,
\* mmap of a stack or of a pool, mprotect of the pool's first pages, mprotect of the
\* initial pages of the stack (FALSE: refused).  No call follows one that is refused
OsYes == [malloc |-> TRUE, reserve |-> TRUE, commit_meta |-> TRUE, commit |-> TRUE]
OsAnswers == {OsYes} \cup {[OsYes EXCEPT ![f] = FALSE] : f \in DOMAIN OsYes}

\* a message is printed
Diag(s, m) == IF ~Ok(s) THEN s ELSE [s EXCEPT !.gstk.diag = @ \cup {m}]

\* the result of an allocation of memory for a stack: full = 0 is NULL
NoOut == [full |-> 0, stk |-> 0, stk_size |-> 0, initial_commit |-> 0]
Out(s, o) == IF ~Ok(s) THEN s ELSE [s EXCEPT !.gstk.out = o]

\* where the OS places a new mapping: the lowest free range that fits
Place(maps, size) ==
  LET starts == {MmapBase} \cup {m.addr + m.size : m \in maps}
      fits(a) == \A m \in maps : a + size <= m.addr \/ m.addr + m.size <= a
  IN CHOOSE a \in starts : fits(a) /\ \A b \in starts : fits(b) => a <= b

\* mp_os_mmap_reserve: reserve virtual memory; ok = FALSE: mmap gives MAP_FAILED
mp_os_mmap_reserve(s, size, ok) ==
  IF ~Ok(s) THEN s
  ELSE IF ~ok THEN Out(Diag([s EXCEPT !.gstk.refused = TRUE], "failed to allocate mmap memory"), NoOut)
  ELSE [s EXCEPT !.gstk.maps = @ \cup {[addr |-> Place(s.gstk.maps, size), size |-> size]},
                 !.gstk.out = [NoOut EXCEPT !.full = Place(s.gstk.maps, size)]]

\* mp_os_mem_free, munmap: free reserved memory
mp_os_mem_free(s, p) ==
  IF ~Ok(s) \/ p = 0 THEN s
  ELSE [s EXCEPT !.gstk.maps = {m \in @ : m.addr # p}]

\* mp_os_mem_commit: ok = FALSE: mprotect fails
mp_os_mem_commit(s, ok) ==
  IF ~Ok(s) \/ ok THEN s ELSE Diag([s EXCEPT !.gstk.refused = TRUE], "failed to commit memory")

\* the entries of the free stack of a pool that the model keeps: the others are zero
FreeLen == MaxG + 3

\* Create a new pool in a given reserved virtual memory area
mp_gpool_create(s, p, size, stack_size0, gap_size0) ==
  LET t          == s.gstk
      stack_size == mp_align_up(stack_size0, t.os_page_size)
      gap_size   == mp_align_up(gap_size0, t.os_page_size)
      block_size == stack_size + gap_size
      count0     == size \div block_size
      count1     == IF count0 > t.os_gpool_max_size \div block_size
                      THEN t.os_gpool_max_size \div block_size ELSE count0
      count      == IF count1 > MP_GPOOL_MAX_COUNT THEN MP_GPOOL_MAX_COUNT ELSE count1
      checked(s1) == mp_assert(s1, size >= stack_size0 + gap_size0 /\ p # 0
                                   /\ stack_size0 > SizeofGpool, "gpool_create:size")
      counted(s2) == mp_assert(s2, count0 > 1, "gpool_create:count>1")
      push(s3) ==
        IF ~Ok(s3) \/ count0 <= 0 THEN s3
        ELSE [s3 EXCEPT !.gstk.pools =
                <<[addr |-> p, full_size |-> size, size |-> count * block_size,
                   block_count |-> count, block_size |-> block_size, gap_size |-> gap_size,
                   free_sp |-> 1,      \* first block is allocated to the gpool_t itself
                   free_lock |-> 0,    \* mp_spin_lock_create()
                   free |-> [i \in 1..FreeLen |-> 0]]>> \o @]
  IN push(counted(checked(s)))

\* mp_gpool_allocx that pops the free stack and takes the block from the stack pointer
\* alone, without the entry that a free stored there
RECURSIVE mp_gpool_allocx_from_sp_only(_, _)
mp_gpool_allocx_from_sp_only(s, i) ==
  IF ~Ok(s) THEN s
  ELSE IF i > Len(s.gstk.pools) THEN Out(s, NoOut)
  ELSE
  LET gp  == s.gstk.pools[i]
      sp  == gp.free_sp
      popped == sp < gp.block_count
      idx == IF popped THEN sp ELSE 0
      s1  == IF popped THEN [s EXCEPT !.gstk.pools[i].free_sp = sp + 1] ELSE s
      block_idx == gp.block_count - idx
      found(s2) ==
        IF ~Ok(s2) THEN s2
        ELSE IF block_idx > 0 THEN
          IF block_idx >= gp.block_count THEN Out(s2, NoOut)
          ELSE Out(s2, [NoOut EXCEPT !.full = gp.addr + block_idx * gp.block_size,
                                     !.stk = gp.addr + block_idx * gp.block_size,
                                     !.stk_size = gp.block_size - gp.gap_size])
        ELSE mp_gpool_allocx_from_sp_only(s2, i + 1)
  IN found(mp_assert(s1, block_idx >= 0 /\ block_idx < gp.block_count, "gpool_allocx:block_idx"))

\* the loop of mp_gpool_allocx over the pools from pool i on
RECURSIVE mp_gpool_allocx_from(_, _)
mp_gpool_allocx_from(s, i) ==
  IF ~Ok(s) THEN s
  ELSE IF i > Len(s.gstk.pools) THEN Out(s, NoOut)
  ELSE
  LET gp  == s.gstk.pools[i]
      sp  == gp.free_sp
      \* pop from free stack
      popped == sp < gp.block_count
      idx == IF popped THEN gp.free[sp] + sp ELSE 0
      block_idx == gp.block_count - idx            \* grow from top
      s1  == IF popped THEN [s EXCEPT !.gstk.pools[i].free_sp = sp + 1] ELSE s
      found(s2) ==
        IF ~Ok(s2) THEN s2
        ELSE IF block_idx > 0 THEN
          IF block_idx >= gp.block_count THEN Out(s2, NoOut)      \* paranoia
          ELSE Out(s2, [NoOut EXCEPT !.full = gp.addr + block_idx * gp.block_size,
                                     !.stk = gp.addr + block_idx * gp.block_size,
                                     !.stk_size = gp.block_size - gp.gap_size])
        ELSE mp_gpool_allocx_from(s2, i + 1)
  IN found(mp_assert(s1, block_idx >= 0 /\ block_idx < gp.block_count, "gpool_allocx:block_idx"))

\* Allocate a fresh growable stack area from the pools
mp_gpool_allocx(s) == mp_gpool_allocx_from(s, 1)

\* Allocate a fresh growable stack area from the pools, with a fresh pool if needed
mp_gpool_alloc(s, os) ==
  LET poolsize  == s.gstk.os_gpool_max_size
      retry(s4) == IF ~Ok(s4) THEN s4 ELSE mp_gpool_allocx(s4)
      create(s3) ==
        IF ~Ok(s3) THEN s3
        ELSE IF ~os.commit_meta THEN Out(mp_os_mem_free(s3, s3.gstk.out.full), NoOut)
        ELSE retry(mp_gpool_create(s3, s3.gstk.out.full, poolsize,
                                   s3.gstk.os_gstack_size - s3.gstk.os_gstack_gap,
                                   s3.gstk.os_gstack_gap))
      reserved(s2) ==
        IF ~Ok(s2) \/ s2.gstk.out.full = 0 THEN s2
        ELSE create(mp_os_mem_commit(s2, os.commit_meta))
      fresh(s1) ==
        IF ~Ok(s1) \/ s1.gstk.out.full # 0 THEN s1
        ELSE reserved(mp_os_mmap_reserve(s1, poolsize, os.reserve))
  IN fresh(mp_gpool_allocx(s))

\* the loop of mp_gpool_free over the pools from pool i on
RECURSIVE mp_gpool_free_from(_, _, _)
mp_gpool_free_from(s, stk, i) ==
  IF ~Ok(s) \/ i > Len(s.gstk.pools) THEN s
  ELSE
  LET gp  == s.gstk.pools[i]
      ofs == stk - gp.addr
      block_idx == ofs \div gp.block_size
      sp  == gp.free_sp - 1
      idx == (gp.block_count - block_idx) - sp       \* reverse if growing down
      aligned(s1) == mp_assert(s1, ofs % gp.block_size = 0, "gpool_free:aligned")
      first(s2)   == mp_assert(s2, block_idx > 0, "gpool_free:block_idx>0")
      inside(s3)  == mp_assert(s3, block_idx < gp.block_count, "gpool_free:block_idx<count")
      push(s4) ==
        IF ~Ok(s4) \/ block_idx = 0 \/ block_idx >= gp.block_count THEN s4
        ELSE mp_assert([s4 EXCEPT !.gstk.pools[i].free_sp = sp,     \* push on free stack
                                  !.gstk.pools[i].free[sp] = idx],
                       sp > 0, "gpool_free:sp>0")
  IN IF ofs >= 0 /\ ofs < gp.size THEN push(inside(first(aligned(s))))
     ELSE mp_gpool_free_from(s, stk, i + 1)

\* Free a growable stack area back to the pools
mp_gpool_free(s, stk) == mp_gpool_free_from(s, stk, 1)

\* Set initial committed page in a gstack
mp_mmap_initial_commit(s, ok) ==
  IF ~Ok(s) THEN s
  ELSE IF ~ok THEN [mp_os_mem_commit(s, FALSE) EXCEPT !.gstk.out.initial_commit = 0 - 1]
  ELSE [s EXCEPT !.gstk.out.initial_commit =
                   IF s.gstk.os_use_overcommit THEN s.gstk.out.stk_size
                   ELSE s.gstk.os_gstack_initial_commit]

\* mp_gstack_os_alloc that keeps what it reserved when the initial commit fails
mp_gstack_os_alloc_keep(s, os) ==
  IF ~Ok(s) THEN s
  ELSE IF ~s.gstk.os_use_gpools THEN
    LET committed(s3) ==
          IF ~Ok(s3) \/ s3.gstk.out.initial_commit >= 0 THEN s3
          ELSE Out(s3, NoOut)
        reserved(s2) ==
          IF ~Ok(s2) \/ s2.gstk.out.full = 0 THEN s2
          ELSE committed(mp_mmap_initial_commit(
                 [s2 EXCEPT !.gstk.out.stk = s2.gstk.out.full + s2.gstk.os_gstack_gap,
                            !.gstk.out.stk_size = s2.gstk.os_gstack_size
                                                   - 2 * s2.gstk.os_gstack_gap],
                 os.commit))
    IN reserved(mp_os_mmap_reserve(s, s.gstk.os_gstack_size, os.reserve))
  ELSE
    LET committed(s3) ==
          IF ~Ok(s3) \/ s3.gstk.out.initial_commit >= 0 THEN s3
          ELSE Out(s3, NoOut)
        pooled(s2) ==
          IF ~Ok(s2) \/ s2.gstk.out.full = 0 THEN s2
          ELSE committed(mp_mmap_initial_commit(s2, os.commit))
    IN pooled(mp_gpool_alloc(s, os))

\* Allocate a gstack (gstack_mmap.c): out.full = 0 when it fails
mp_gstack_os_alloc(s, os) ==
  IF ~Ok(s) THEN s
  ELSE IF ~s.gstk.os_use_gpools THEN
    LET committed(s3) ==
          IF ~Ok(s3) \/ s3.gstk.out.initial_commit >= 0 THEN s3
          ELSE Out(mp_os_mem_free(s3, s3.gstk.out.full), NoOut)      \* munmap
        reserved(s2) ==
          IF ~Ok(s2) \/ s2.gstk.out.full = 0 THEN s2
          ELSE committed(mp_mmap_initial_commit(
                 [s2 EXCEPT !.gstk.out.stk = s2.gstk.out.full + s2.gstk.os_gstack_gap,
                            !.gstk.out.stk_size = s2.gstk.os_gstack_size
                                                   - 2 * s2.gstk.os_gstack_gap],
                 os.commit))
    IN reserved(mp_os_mmap_reserve(s, s.gstk.os_gstack_size, os.reserve))
  ELSE
    LET committed(s3) ==
          IF ~Ok(s3) \/ s3.gstk.out.initial_commit >= 0 THEN s3
          ELSE Out(mp_gpool_free(s3, s3.gstk.out.full), NoOut)
        pooled(s2) ==
          IF ~Ok(s2) \/ s2.gstk.out.full = 0 THEN s2
          ELSE committed(mp_mmap_initial_commit(s2, os.commit))
    IN pooled(mp_gpool_alloc(s, os))

\* Free the memory of a gstack (gstack_mmap.c)
mp_gstack_os_free(s, full) ==
  IF ~Ok(s) THEN s
  ELSE IF ~s.gstk.os_use_gpools THEN mp_os_mem_free(s, full)
  ELSE mp_gpool_free(s, full)

\* the sizes of the extra area asked of mp_gstack_alloc (bytes)
ExtraSizes == {0, 16}

\* mp_malloc of a gstack record: the first record that is not allocated
FreshG(s) == CHOOSE i \in GIdx : /\ s.gstk.g[i].st \in {"none", "freed"}
                                 /\ \A j \in 1..(i - 1) : s.gstk.g[j].st \notin {"none", "freed"}

\* the record that mp_gstack_alloc is setting up
Malloced(s) == CHOOSE i \in GIdx : s.gstk.g[i].st = "malloced"

\* (void*)&sp in the code that calls: in the running gstack, or on the system stack
StackPointer(s) ==
  IF s.gstk.current = 0 THEN SysSp
  ELSE s.gstk.g[s.gstk.current].stack + s.gstk.g[s.gstk.current].stack_size - s.gstk.os_page_size

\* mp_gstack_free that caches while the count is at most the maximum
mp_gstack_free_delay_le(s, g, delay) ==
  LET freed(s2) == IF ~Ok(s2) THEN s2 ELSE [s2 EXCEPT !.gstk.g[g] = [NoGstack EXCEPT !.st = "freed"]]
      free(s1) ==
        IF ~Ok(s1) THEN s1
        ELSE IF delay THEN [s1 EXCEPT !.gstk.delayed = <<g>> \o @, !.gstk.g[g].st = "delayed"]
        ELSE IF s1.gstk.cache_count <= s1.gstk.os_gstack_cache_max_count
          THEN [s1 EXCEPT !.gstk.cache = <<g>> \o @, !.gstk.cache_count = @ + 1,
                          !.gstk.g[g].st = "cache"]
        ELSE freed(mp_gstack_os_free(s1, s1.gstk.g[g].full))
  IN IF ~Ok(s) \/ g = 0 THEN s
     ELSE free(mp_assert(s, s.gstk.os_page_size # 0, "gstack_free:os_page_size!=0"))

\* Free a gstack (gstack.c): to the delayed list, to the cache, or to the OS
RECURSIVE mp_gstack_clear_delayed_list(_, _)
mp_gstack_free_delay(s, g, delay) ==
  LET freed(s2) == IF ~Ok(s2) THEN s2 ELSE [s2 EXCEPT !.gstk.g[g] = [NoGstack EXCEPT !.st = "freed"]]
      free(s1) ==
        IF ~Ok(s1) THEN s1
        \* if delayed, always push it on the delayed list
        ELSE IF delay THEN [s1 EXCEPT !.gstk.delayed = <<g>> \o @, !.gstk.g[g].st = "delayed"]
        \* otherwise try to put it in our thread local cache...
        ELSE IF s1.gstk.cache_count < s1.gstk.os_gstack_cache_max_count
          THEN [s1 EXCEPT !.gstk.cache = <<g>> \o @, !.gstk.cache_count = @ + 1,
                          !.gstk.g[g].st = "cache"]
        \* otherwise free it to the OS
        ELSE freed(mp_gstack_os_free(s1, s1.gstk.g[g].full))
  IN IF ~Ok(s) \/ g = 0 THEN s
     ELSE free(mp_assert(s, s.gstk.os_page_size # 0, "gstack_free:os_page_size!=0"))

\* the loop of mp_gstack_clear_delayed over the list
mp_gstack_clear_delayed_list(s, l) ==
  IF ~Ok(s) \/ l = <<>> THEN s
  ELSE mp_gstack_clear_delayed_list(
         mp_gstack_free_delay([s EXCEPT !.gstk.delayed = Tail(l)], Head(l), FALSE),   \* maybe move to cache
         Tail(l))

\* mp_gstack_clear_delayed that does not look at std::uncaught_exception()
mp_gstack_clear_delayed_always(s) ==
  IF ~Ok(s) \/ s.gstk.delayed = <<>> THEN s
  ELSE mp_gstack_clear_delayed_list(s, s.gstk.delayed)

\* mp_gstack_clear_delayed that frees the delayed gstacks and leaves them linked in the list
mp_gstack_clear_delayed_linked(s) ==
  LET relink(s1) == IF ~Ok(s1) THEN s1 ELSE [s1 EXCEPT !.gstk.delayed = s.gstk.delayed]
  IN IF ~Ok(s) \/ s.gstk.delayed = <<>> THEN s
     ELSE IF s.cpp /\ s.gstk.uncaught THEN s
     ELSE relink(mp_gstack_clear_delayed_list(s, s.gstk.delayed))

\* Free the delayed gstacks, unless exception unwinding is active
mp_gstack_clear_delayed(s) ==
  IF ~Ok(s) \/ s.gstk.delayed = <<>> THEN s
  ELSE IF s.cpp /\ s.gstk.uncaught THEN s
  ELSE mp_gstack_clear_delayed_list(s, s.gstk.delayed)

\* the search of mp_gstack_alloc in the cache: the position of the first good one, or 0
CacheHit(s, extra_size) ==
  LET good(i) == LET g == s.gstk.g[s.gstk.cache[i]] IN
                   /\ g.extra_size >= extra_size
                   \* only use a cached stack if it is under the parent stack
                   /\ s.debug => g.stack < StackPointer(s)
      hits == {i \in 1..Len(s.gstk.cache) : good(i)}
  IN IF hits = {} THEN 0 ELSE CHOOSE i \in hits : \A j \in hits : i <= j

\* Allocate a growable stacklet: gstk.ret is the record, 0 for NULL
mp_gstack_alloc(s, extra_size, os, oc, prev) ==
  LET ret(s9, g) == IF ~Ok(s9) THEN s9 ELSE [s9 EXCEPT !.gstk.ret = g, !.gstk.out = NoOut]
      fill(s4) ==
        IF ~Ok(s4) THEN s4
        ELSE IF s4.gstk.out.full = 0
          THEN ret([s4 EXCEPT !.gstk.errno = "ENOMEM",
                              !.gstk.g[Malloced(s4)].st = "freed"], 0)       \* mp_free(g)
        ELSE ret([s4 EXCEPT !.gstk.g[Malloced(s4)] =
                    [st |-> "out", full |-> s4.gstk.out.full,
                     full_size |-> s4.gstk.os_gstack_size,
                     stack |-> s4.gstk.out.stk, stack_size |-> s4.gstk.out.stk_size,
                     initial_commit |-> s4.gstk.out.initial_commit,
                     committed |-> s4.gstk.out.initial_commit,
                     extra_size |-> mp_align_up(extra_size, 8),
                     pooled |-> s4.gstk.os_use_gpools]],
                 Malloced(s4))
      \* otherwise allocate fresh
      fresh(s3) ==
        IF ~os.malloc THEN ret(s3, 0)
        ELSE fill(mp_gstack_os_alloc([s3 EXCEPT !.gstk.g[FreshG(s3)].st = "malloced"], os))
      \* first look in our thread local cache..
      look(s2) ==
        IF ~Ok(s2) THEN s2
        ELSE IF CacheHit(s2, extra_size) = 0 THEN fresh(s2)
        ELSE ret([s2 EXCEPT
                    !.gstk.cache = SubSeq(@, 1, CacheHit(s2, extra_size) - 1)
                                     \o SubSeq(@, CacheHit(s2, extra_size) + 1, Len(@)),
                    !.gstk.cache_count = @ - 1,
                    !.gstk.g[s2.gstk.cache[CacheHit(s2, extra_size)]].st = "out"],
                 s2.gstk.cache[CacheHit(s2, extra_size)])
      cleared(s1) == look(mp_gstack_clear_delayed(s1))
      checked(s0) == cleared(mp_assert(s0, s0.gstk.os_page_size # 0, "gstack_alloc:os_page_size!=0"))
  IN IF ~Ok(s) THEN s
     ELSE checked(mp_gstack_init([s EXCEPT !.gstk.errno = "", !.gstk.refused = FALSE],
                                 <<>>, oc, prev))

\* the loop of mp_gstack_clear_cache over the list
RECURSIVE mp_gstack_clear_cache_list(_, _)
mp_gstack_clear_cache_list(s, l) ==
  IF ~Ok(s) \/ l = <<>> THEN s
  ELSE LET freed(s2) == IF ~Ok(s2) THEN s2
                        ELSE [s2 EXCEPT !.gstk.g[Head(l)] = [NoGstack EXCEPT !.st = "freed"]]
       IN mp_gstack_clear_cache_list(
            freed(mp_gstack_os_free([s EXCEPT !.gstk.cache = Tail(l), !.gstk.cache_count = @ - 1],
                                    s.gstk.g[Head(l)].full)),
            Tail(l))

\* Clear all (thread local) cached gstacks
mp_gstack_clear_cache(s) ==
  LET done(s2)  == mp_assert(s2, s2.gstk.cache = <<>> /\ s2.gstk.cache_count = 0,
                             "gstack_clear_cache:empty")
      clear(s1) == IF ~Ok(s1) THEN s1 ELSE done(mp_gstack_clear_cache_list(s1, s1.gstk.cache))
  IN clear(mp_gstack_clear_delayed(s))

\* mp_unpush (stacks grow down): the bytes between p and the base of the stack
mp_unpush(p, stack, stack_size) == stack + stack_size - p

\* Is an address located in a gstack? (g = 0 is NULL)
mp_gstack_check_access(s, g, address) ==
  IF g = 0 THEN [access |-> "MP_NOACCESS", stack_size |-> 0, available |-> 0]
  ELSE LET r == s.gstk.g[g] IN
    IF address >= r.stack /\ address < r.stack + r.stack_size        \* mp_gstack_contains
      THEN [access |-> "MP_ACCESS", stack_size |-> r.stack_size,
            available |-> r.stack_size - mp_unpush(address, r.stack, r.stack_size)]
    ELSE IF address >= r.full /\ address < r.stack                    \* in the gap
      THEN [access |-> "MP_NOACCESS_STACK_OVERFLOW", stack_size |-> r.stack_size, available |-> 0]
    ELSE [access |-> "MP_NOACCESS", stack_size |-> r.stack_size, available |-> 0]

\* the gaps: no-access pages at the edges of the gstacks
InGap(s, a) ==
  \/ \E i \in GIdx : LET r == s.gstk.g[i] IN
       /\ r.st \in {"out", "cache", "delayed"} /\ ~r.pooled
       /\ \/ r.full <= a /\ a < r.stack
          \/ r.stack + r.stack_size <= a /\ a < r.full + r.full_size
  \/ \E i \in 1..Len(s.gstk.pools) : LET gp == s.gstk.pools[i] IN
       /\ gp.addr <= a /\ a < gp.addr + gp.size
       /\ (a - gp.addr) % gp.block_size >= gp.block_size - gp.gap_size

\* mp_mmap_commit_on_demand without the cap `extra > available`
mp_mmap_commit_on_demand_uncapped(s, addr, ok) ==
  LET page == mp_align_down(addr, s.gstk.os_page_size)
      g    == s.gstk.current
      a    == mp_gstack_check_access(s, g, page)
      usedb == a.stack_size - a.available
      e1   == IF s.gstk.os_gstack_grow_fast /\ usedb > 0 THEN 2 * usedb ELSE 0
      e2   == IF e1 > 1 * MP_MIB THEN 1 * MP_MIB ELSE e1
      extra == mp_align_down(e2, s.gstk.os_page_size)
      commit_start == page - extra
  IN IF ~Ok(s) THEN s
     ELSE IF a.access = "MP_ACCESS" THEN
       IF ok THEN [s EXCEPT !.gstk.ret = 1,
                            !.gstk.g[g].committed = mp_unpush(commit_start, s.gstk.g[g].stack,
                                                              s.gstk.g[g].stack_size),
                            !.gstk.gap_rw = @ \/ \E b \in {commit_start, page} : InGap(s, b)]
       ELSE [s EXCEPT !.gstk.ret = 1]
     ELSE IF a.access = "MP_NOACCESS_STACK_OVERFLOW"
       THEN [Diag(s, "stack overflow") EXCEPT !.gstk.ret = 0]
     ELSE [s EXCEPT !.gstk.ret = 0]

\* mp_mmap_commit_on_demand(addr, false): ok = FALSE: mprotect fails.  gstk.ret is 1
\* for true; gstk.gap_rw records that pages of a gap were made accessible
mp_mmap_commit_on_demand(s, addr, ok) ==
  LET page == mp_align_down(addr, s.gstk.os_page_size)
      g    == s.gstk.current                        \* mp_gstack_current()
      a    == mp_gstack_check_access(s, g, page)
      usedb == a.stack_size - a.available
      e1   == IF s.gstk.os_gstack_grow_fast /\ usedb > 0 THEN 2 * usedb ELSE 0    \* doubling..
      e2   == IF e1 > 1 * MP_MIB THEN 1 * MP_MIB ELSE e1
      e3   == IF e2 > a.available THEN a.available ELSE e2
      extra == mp_align_down(e3, s.gstk.os_page_size)
      commit_start == page - extra
  IN IF ~Ok(s) THEN s
     ELSE IF a.access = "MP_ACCESS" THEN
       IF ok THEN [s EXCEPT !.gstk.ret = 1,
                            !.gstk.g[g].committed = mp_unpush(commit_start, s.gstk.g[g].stack,
                                                              s.gstk.g[g].stack_size),
                            !.gstk.gap_rw = @ \/ \E b \in {commit_start, page} : InGap(s, b)]
       ELSE [s EXCEPT !.gstk.ret = 1]
     ELSE IF a.access = "MP_NOACCESS_STACK_OVERFLOW"
       THEN [Diag(s, "stack overflow") EXCEPT !.gstk.ret = 0]
     ELSE [s EXCEPT !.gstk.ret = 0]

\* mp_sig_handler_commit_on_demand: exits: the handler that was installed before ends
\* the process.  When the handler returns the write is done again: gstk.fault = 0 says
\* that it went through
mp_sig_handler_commit_on_demand(s, addr, ok, exits) ==
  LET parent(s1) ==
        IF ~Ok(s1) THEN s1
        ELSE IF s1.gstk.ret = 1 THEN [s1 EXCEPT !.gstk.fault = IF ok THEN 0 ELSE addr]   \* ok!
        \* otherwise call the previous handler
        ELSE IF s1.gstk.prev /\ exits THEN [s1 EXCEPT !.status = "exit", !.gstk.fault = addr]
        ELSE [s1 EXCEPT !.gstk.fault = addr]
  IN parent(mp_mmap_commit_on_demand(s, addr, ok))

\* a write to the address addr faults: the handler of the library runs if it is
\* installed, else the default action of the signal ends the process
PageFault(s, addr, ok, exits) ==
  LET counted(s1) == IF s1.status \in {"ok", "exit"} THEN [s1 EXCEPT !.gstk.faults = @ + 1,
                                                                     !.gstk.fgap = InGap(s, addr)]
                     ELSE s1
  IN IF ~Ok(s) THEN s
     ELSE IF ~s.gstk.sig THEN [s EXCEPT !.status = "segv", !.gstk.fault = addr,
                                        !.gstk.fgap = InGap(s, addr)]
     ELSE counted(mp_sig_handler_commit_on_demand(s, addr, ok, exits))

\* ---- gstack_win.c: the page fault handler of Windows ------------------------------------

\* mp_gstack_win_page_fault.  exn: the exception is a C++ exception (MP_CPP_EXN), for
\* which the address is tib->StackLimit - 8, in the page below the committed part;
\* guaranteed: what SetThreadStackGuarantee reports; ok1, ok2: the two calls of
\* VirtualAlloc succeed.  gstk.ret is 1 for EXCEPTION_CONTINUE_EXECUTION: the write is
\* done again and goes through.  With EXCEPTION_CONTINUE_SEARCH an access violation
\* that nothing else handles ends the process.
mp_gstack_win_page_fault(s, addr0, exn, guaranteed, ok1, ok2) ==
  IF ~Ok(s) THEN s
  ELSE
  LET t    == s.gstk
      g    == t.current                             \* mp_gstack_current()
      r    == t.g[g]
      addr == IF exn /\ g # 0 THEN r.stack + r.stack_size - r.committed - t.os_page_size
              ELSE addr0
      page == mp_align_down(addr, t.os_page_size)
      a    == mp_gstack_check_access(s, g, page)
      usedb == a.stack_size - a.available
      commit_available == IF g = 0 \/ a.access # "MP_ACCESS" \/ r.committed - usedb < 0 THEN 0
                          ELSE r.committed - usedb
      guard_size == t.os_page_size + mp_align_up(guaranteed, t.os_page_size)
      \* reserve always one page + `extra`
      e0   == IF exn THEN t.os_gstack_exn_guaranteed - t.os_page_size ELSE 0
      e1   == IF t.os_gstack_grow_fast /\ ~exn /\ usedb > 0 THEN 2 * usedb ELSE e0   \* doubling..
      e2   == IF e1 > 1 * MP_MIB THEN 1 * MP_MIB ELSE e1                             \* up to 1MiB
      e3   == IF e2 > a.available - guard_size THEN a.available - guard_size ELSE e2 \* up to stack limit
      extra == mp_align_down(e3, t.os_page_size)
      extend == page - extra
      gpage  == extend - guard_size
      search == IF exn THEN [s EXCEPT !.gstk.ret = 0]
                ELSE [s EXCEPT !.gstk.ret = 0, !.gstk.fault = addr, !.gstk.faults = @ + 1,
                               !.gstk.fgap = InGap(s, addr), !.status = "segv"]
  IN IF exn /\ commit_available >= t.os_gstack_exn_guaranteed THEN search
     ELSE IF a.access = "MP_ACCESS" /\ extra >= 0 /\ ok1 /\ ok2 THEN
       [s EXCEPT !.gstk.ret = IF exn THEN 0 ELSE 1,
                 !.gstk.fault = 0, !.gstk.faults = @ + 1, !.gstk.fgap = FALSE,
                 !.gstk.g[g].committed = mp_unpush(extend, r.stack, r.stack_size),
                 !.gstk.gap_rw = @ \/ \E b \in {gpage, extend, page} : InGap(s, b)]
     ELSE search

\* ---- the prompt chain --------------------------------------------------------

\* mp_prompt_parent: walk the chain; with NULL the first prompt is the current top
mp_prompt_parent(s, p) == IF p = NULL THEN s.top ELSE s.prompts[p].parent

\* the prompts met by following parent links from q (cut off after n steps)
RECURSIVE Walk(_, _, _)
Walk(prm, q, n) ==
  IF q = NULL \/ n = 0 THEN <<>> ELSE <<q>> \o Walk(prm, prm[q].parent, n - 1)

Chain(s)       == Walk(s.prompts, s.top, MaxPrompts + 1)
ChainFrom(s,q) == Walk(s.prompts, q, MaxPrompts + 1)
InSeq(x, sq)   == \E i \in 1..Len(sq) : sq[i] = x
Count(x, sq)   == Cardinality({i \in 1..Len(sq) : sq[i] = x})

\* An _active_ prompt is currently part of the stack: top == NULL
mp_prompt_is_active(s, p) == p # NULL /\ s.prompts[p].top = NULL

\* mp_prompt_is_ancestor that finds every prompt
mp_prompt_is_ancestor_any(s, p) == TRUE

\* Is a prompt an ancestor in the chain?  (the walk starts at the current top itself)
mp_prompt_is_ancestor(s, p) == InSeq(p, Chain(s))

\* ---- gstack (the part mprompt.c uses) ---------------------------------------

\* mp_gstack_alloc + mp_gstack_reserve: the lowest gstack not handed out yet
FreshPrompts(s) == {p \in PIds : s.gs[p].st = "none"}
NewPrompt(s)    == CHOOSE p \in FreshPrompts(s) : \A q \in FreshPrompts(s) : p <= q

\* mp_gstack_free: the stack is released to the cache or the OS, and with it the
\* prompt record that lives at its base; what the memory holds from then on is
\* not defined
mp_gstack_free(s, g) ==
  IF ~Ok(s) THEN s
  ELSE [s EXCEPT !.gs[g].freed = @ + 1, !.stacks[g] = <<>>, !.prompts[g] = NoPrompt]

\* ---- prompts ------------------------------------------------------------------

\* Allocate a fresh (suspended) prompt
mp_prompt_create(s) ==
  LET p == NewPrompt(s) IN
  [s EXCEPT !.prompts[p] = [parent |-> NULL, top |-> p, refcount |-> 1,
                            return_point |-> NoPt, resume_point |-> NoPt],
            !.gs[p].st = "fresh",
            !.stacks[p] = <<>>]

\* the loop of mp_prompt_free: free p and walk to its parent
RECURSIVE mp_prompt_free_loop(_, _, _)
mp_prompt_free_loop(s, p, n) ==
  IF ~Ok(s) \/ p = NULL \/ n = 0 THEN s
  ELSE LET parent == s.prompts[p].parent
           unreferenced(s0) == mp_assert(s0, s0.prompts[p].refcount = 0, "free:refcount==0")
           free(s1)         == mp_gstack_free(s1, p)
           owned(s2) == IF parent # NULL
                          THEN mp_assert(s2, s2.prompts[parent].refcount = 1,
                                         "free:parent->refcount==1")
                          ELSE s2
           disown(s3) == IF parent # NULL /\ Ok(s3)
                           THEN [s3 EXCEPT !.prompts[parent].refcount = @ - 1]
                           ELSE s3
       IN mp_prompt_free_loop(disown(owned(free(unreferenced(s)))), parent, n - 1)

\* Free a prompt and drop its children
mp_prompt_free(s, p) ==
  LET s1 == mp_assert(s, ~mp_prompt_is_active(s, p), "free:!active") IN
  mp_prompt_free_loop(s1, s1.prompts[p].top, MaxPrompts + 1)

\* Decrement the refcount (and free when it becomes zero)
mp_prompt_drop(s, p) ==
  IF ~Ok(s) THEN s
  ELSE LET i  == s.prompts[p].refcount
           s1 == [s EXCEPT !.prompts[p].refcount = @ - 1]
       IN IF i <= 1 THEN mp_prompt_free(s1, p) ELSE s1

\* Increment the refcount
mp_prompt_dup(s, p) ==
  IF ~Ok(s) THEN s ELSE [s EXCEPT !.prompts[p].refcount = @ + 1]

\* mp_prompt_link with `_mp_prompt_top = p` in place of `_mp_prompt_top = p->top`: the
\* prompts captured above p are lost from the chain
mp_prompt_link_no_chain(s, p, ret) ==
  LET s1 == mp_assert(s, ~mp_prompt_is_active(s, p), "link:!active")
      s2 == IF ~Ok(s1) THEN s1
            ELSE [s1 EXCEPT !.prompts[p].parent = s1.top,
                            !.top = p,
                            !.prompts[p].top = NULL]
      s3 == IF ~Ok(s2) THEN s2
            ELSE IF ret # NoPt THEN [s2 EXCEPT !.prompts[p].return_point = ret]
            ELSE mp_assert(s2, s2.prompts[p].return_point # NoPt, "link:return_point")
  IN mp_assert(s3, mp_prompt_is_active(s3, p), "link:active")

\* mp_prompt_link without `p->top = NULL`: the linked prompt keeps its suspended mark
mp_prompt_link_keep_suspended(s, p, ret) ==
  LET s1 == mp_assert(s, ~mp_prompt_is_active(s, p), "link:!active")
      s2 == IF ~Ok(s1) THEN s1
            ELSE [s1 EXCEPT !.prompts[p].parent = s1.top,
                            !.top = s1.prompts[p].top]
      s3 == IF ~Ok(s2) THEN s2
            ELSE IF ret # NoPt THEN [s2 EXCEPT !.prompts[p].return_point = ret]
            ELSE mp_assert(s2, s2.prompts[p].return_point # NoPt, "link:return_point")
  IN mp_assert(s3, mp_prompt_is_active(s3, p), "link:active")

\* Link a suspended prompt to the current prompt chain and set the new prompt top;
\* the C function returns p->resume_point, which the caller reads from the result
mp_prompt_link(s, p, ret) ==
  LET inactive(s0) == mp_assert(s0, ~mp_prompt_is_active(s0, p), "link:!active")
      link(s1) == IF ~Ok(s1) THEN s1
                  ELSE [s1 EXCEPT !.prompts[p].parent = s1.top,
                                  !.top = s1.prompts[p].top,
                                  !.prompts[p].top = NULL]
      set_return(s2) ==
        IF ~Ok(s2) THEN s2
        ELSE IF ret # NoPt THEN [s2 EXCEPT !.prompts[p].return_point = ret]
        ELSE mp_assert(s2, s2.prompts[p].return_point # NoPt, "link:return_point")
      active(s3) == mp_assert(s3, mp_prompt_is_active(s3, p), "link:active")
  IN active(set_return(link(inactive(s))))

\* mp_prompt_unlink without `_mp_prompt_top = p->parent`: the top stays where it was
mp_prompt_unlink_keep_top(s, p, res) ==
  LET s1 == mp_assert(s, mp_prompt_is_active(s, p), "unlink:active")
      s2 == mp_assert(s1, mp_prompt_is_ancestor(s1, p), "unlink:ancestor")
      s3 == IF ~Ok(s2) THEN s2
            ELSE [s2 EXCEPT !.prompts[p].top = s2.top,
                            !.prompts[p].parent = NULL,
                            !.prompts[p].resume_point = res]
  IN mp_assert(s3, ~mp_prompt_is_active(s3, p), "unlink:!active")

\* mp_prompt_unlink without `p->top = _mp_prompt_top`: the prompt keeps its active mark
mp_prompt_unlink_keep_active(s, p, res) ==
  LET s1 == mp_assert(s, mp_prompt_is_active(s, p), "unlink:active")
      s2 == mp_assert(s1, mp_prompt_is_ancestor(s1, p), "unlink:ancestor")
  IN IF ~Ok(s2) THEN s2
     ELSE [s2 EXCEPT !.top = s2.prompts[p].parent,
                     !.prompts[p].parent = NULL,
                     !.prompts[p].resume_point = res]

\* mp_prompt_unlink without `p->parent = NULL`: the suspended prompt still points
\* into the chain it left
mp_prompt_unlink_keep_parent(s, p, res) ==
  LET s1 == mp_assert(s, mp_prompt_is_active(s, p), "unlink:active")
      s2 == mp_assert(s1, mp_prompt_is_ancestor(s1, p), "unlink:ancestor")
      s3 == IF ~Ok(s2) THEN s2
            ELSE [s2 EXCEPT !.prompts[p].top = s2.top,
                            !.top = s2.prompts[p].parent,
                            !.prompts[p].resume_point = res]
  IN mp_assert(s3, ~mp_prompt_is_active(s3, p), "unlink:!active")

\* Unlink a prompt from the current chain and suspend it (the new prompt top is its
\* parent); the C function returns p->return_point
mp_prompt_unlink(s, p, res) ==
  LET active(s0)   == mp_assert(s0, mp_prompt_is_active(s0, p), "unlink:active")
      ancestor(s1) == mp_assert(s1, mp_prompt_is_ancestor(s1, p), "unlink:ancestor")
      unlink(s2) == IF ~Ok(s2) THEN s2
                    ELSE [s2 EXCEPT !.prompts[p].top = s2.top,
                                    !.top = s2.prompts[p].parent,
                                    !.prompts[p].parent = NULL,
                                    !.prompts[p].resume_point = res]
      inactive(s3) == mp_assert(s3, ~mp_prompt_is_active(s3, p), "unlink:!active")
  IN inactive(unlink(ancestor(active(s))))

\* is `pt` the jmpbuf of a live frame of the given kind?
LivePt(s, pt, kind) ==
  /\ pt # NoPt
  /\ pt[2] <= Len(s.stacks[pt[1]])
  /\ s.stacks[pt[1]][pt[2]].kind = kind

\* mp_longjmp: continue in the frame that holds the jmpbuf, dropping what is above it
mp_longjmp(s, pt) ==
  IF ~Ok(s) THEN s
  ELSE [s EXCEPT !.cur = pt[1],
                 !.stacks[pt[1]] = SubSeq(@, 1, pt[2])]


\* ---- entering, returning, yielding ----------------------------------------------

\* the lowest mp_mresume_t not allocated yet (mp_malloc_safe_tp)
\* FreshMres: the records left to the clients that are bounded by MaxMres
FreshMres(s)  == {r \in 1..MaxMres : s.mres[r].alloc = "none"}
UnusedMres(s) == {r \in MIds : s.mres[r].alloc = "none"}
NewMres(s)    == CHOOSE r \in UnusedMres(s) : \A q \in UnusedMres(s) : r <= q

\* the chain captured under the suspended prompt p as it is now: from p->top down to
\* p, each stack up to the stack pointer saved for it (the resume point for the top,
\* the child's return point for a parent)
RECURSIVE CapturedFrom(_, _, _, _)
CapturedFrom(s, q, sp, n) ==
  IF q = NULL \/ n = 0 THEN <<>>
  ELSE <<[g |-> q, parent |-> s.prompts[q].parent,
          frames |-> IF sp # NoPt /\ sp[1] = q /\ sp[2] <= Len(s.stacks[q])
                       THEN SubSeq(s.stacks[q], 1, sp[2]) ELSE <<>>]>>
       \o CapturedFrom(s, s.prompts[q].parent, s.prompts[q].return_point, n - 1)

Captured(s, p) ==
  [top |-> s.prompts[p].top, rp |-> s.prompts[p].resume_point,
   stk |-> CapturedFrom(s, s.prompts[p].top, s.prompts[p].resume_point, MaxPrompts + 1)]

\* Execute the function that is yielded or return normally.  The thread is in the
\* frame of mp_prompt_resume that holds `ret` (the top frame of the current stack).
mp_prompt_exec_yield_fun(s, p) ==
  IF ~Ok(s) THEN s
  ELSE
  LET ret == TopFrame(s)
      s1  == mp_assert(s, ~mp_prompt_is_active(s, p), "exec:!active")
  IN IF ~Ok(s1) THEN s1
     ELSE IF ret.rk = "YIELD_ONCE" THEN
       Push([s1 EXCEPT !.hist.issued = @ \cup {<<p, s1.gs[p].gen>>}],
            [Frame("yfn") EXCEPT !.p = p, !.rk = "once", !.arg = ret.arg,
                                 !.h = s1.gs[p].gen, !.fresh = TRUE])
     ELSE IF ret.rk = "RETURN" THEN
       LET result == ret.arg
           returned(s2) ==
             LET s3 == Deliver(Pop(s2), result)   \* mp_prompt_resume returns to its caller
             IN IF ~Ok(s2) THEN s2
                ELSE [s3 EXCEPT !.last = [NoEvent EXCEPT !.op = "prompt_ret", !.p = p,
                                            !.v = s.last.v, !.rv = s3.last.rv,
                                            !.flag = ret.init, !.tp0 = ret.tp, !.tp1 = s3.top]]
       IN returned(mp_prompt_drop(s1, p))
     ELSE \* MP_YIELD_MULTI
       LET r == NewMres(s1) IN
       Push([s1 EXCEPT !.mres[r] = [alloc |-> "live", refcount |-> 1, resume_count |-> 0, prompt |-> p,
                                    save |-> <<>>,
                                    tail_return_point |-> s1.prompts[p].return_point,
                                    snap |-> Captured(s1, p)]],
            [Frame("yfn") EXCEPT !.p = p, !.rk = "multi", !.arg = ret.arg,
                                 !.h = r, !.fresh = TRUE])

\* mp_yield_internal, the branch `Y:` taken when the resume point is jumped to: the
\* thread is in the frame of mp_yield_internal (the top frame of the current stack)
mp_yield_internal_resumed(s, ev) ==
  IF ~Ok(s) THEN s
  ELSE
  LET res == TopFrame(s)
      active(s0)   == mp_assert(s0, mp_prompt_is_active(s0, res.p), "yield:resumed active")
      ancestor(s1) == mp_assert(s1, mp_prompt_is_ancestor(s1, res.p), "yield:resumed ancestor")
      return(s2) ==
        LET s3 == Deliver(Pop(s2), res.res)       \* return res.result;
        IN IF ~Ok(s2) THEN s2
           ELSE [s3 EXCEPT !.last = [ev EXCEPT !.p = res.p, !.v = res.arg,
                                        !.rv = s3.last.rv, !.tp0 = res.tp, !.tp1 = s3.top,
                                        !.chain0 = res.chain, !.chain1 = Chain(s3)]]
  IN return(ancestor(active(s)))

\* mp_gstack_enter + mp_stack_enter: run fun(arg) at the base of gstack g
mp_gstack_enter(s, g, arg) ==
  IF ~Ok(s) THEN s
  ELSE [s EXCEPT !.cur = g,
                 !.stacks[g] = <<[Frame("entry") EXCEPT !.p = g, !.arg = arg]>>,
                 !.gs[g].st = "entered"]

\* Resume a prompt: used for the initial entry as well as for resuming in a
\* suspended prompt.  Stops where the client's code runs again.
mp_prompt_resume(s, p, arg, init, ev) ==
  IF ~Ok(s) THEN s
  ELSE
  LET s1 == Push(s, [Frame("resume") EXCEPT !.p = p, !.init = init, !.tp = s.top])
      pt == <<s.cur, Len(s.stacks[s.cur]) + 1>>
      s2 == mp_assert(s1, s.prompts[p].parent = NULL, "resume:parent==NULL")
      linked(s3) ==
        LET res == s3.prompts[p].resume_point
        IN IF ~Ok(s3) THEN s3
           ELSE IF res # NoPt THEN
             \* PR: resume to yield point
             IF ~LivePt(s3, res, "yield") THEN Undefined(s3, "resume:dangling resume_point")
             ELSE mp_yield_internal_resumed(
                    mp_longjmp([s3 EXCEPT !.stacks[res[1]][res[2]].res = arg], res), ev)
           ELSE
             \* PI: initial entry, switch to the new stack with an initial function
             mp_gstack_enter(s3, p, arg)
  IN linked(mp_prompt_link(s2, p, pt))            \* make active

\* mp_prompt_enter
mp_prompt_enter(s, p, arg) ==
  LET s1 == mp_assert(s, ~mp_prompt_is_active(s, p) /\ s.prompts[p].resume_point = NoPt,
                      "enter:!active && resume_point==NULL")
  IN mp_prompt_resume(s1, p, arg, TRUE, NoEvent)

\* Install a fresh prompt `p` with a growable stack and start running `fun(p,arg)` on it
mp_prompt(s, arg) ==
  LET p == NewPrompt(s) IN mp_prompt_enter(mp_prompt_create(s), p, arg)

\* a jump to the return point of p: the frame of mp_prompt_resume continues under its
\* setjmp with mp_prompt_exec_yield_fun(&ret, p)
ReturnTo(s, ret, rkind, arg) ==
  IF ~Ok(s) THEN s
  ELSE IF ~LivePt(s, ret, "resume") THEN Undefined(s, "dangling return_point")
  ELSE LET s1 == [s EXCEPT !.stacks[ret[1]][ret[2]].arg = arg,
                           !.stacks[ret[1]][ret[2]].rk = rkind]
           s2 == mp_longjmp(s1, ret)
       IN mp_prompt_exec_yield_fun(s2, TopFrame(s2).p)

\* Initial stack entry, after the start function has returned `result`
\* (RET: return from a prompt)
mp_prompt_stack_entry(s, result) ==
  LET p  == TopFrame(s).p
      s0 == [s EXCEPT !.last = [NoEvent EXCEPT !.v = result]]
      return(s1) == ReturnTo(s1, s1.prompts[p].return_point, "RETURN", result)
  IN return(mp_prompt_unlink(s0, p, NoPt))

\* Yield to a prompt with a certain resumption kind. Once yielded back up, execute `fun(arg)`
mp_yield_internal(s, rkind, p, arg) ==
  LET s0 == Push(s, [Frame("yield") EXCEPT !.p = p, !.rk = rkind, !.arg = arg,
                                           !.tp = s.top, !.chain = Chain(s)])
      res == <<s.cur, Len(s.stacks[s.cur]) + 1>>
      active(s1)   == mp_assert(s1, mp_prompt_is_active(s1, p), "yield:active")
      ancestor(s2) == mp_assert(s2, mp_prompt_is_ancestor(s2, p), "yield:ancestor")
      \* YR: yielding to prompt, or resumed prompt (P)
      unlink(s3)   == mp_prompt_unlink(s3, p, res)
      yielded(s4)  == IF ~Ok(s4) THEN s4
                      ELSE [s4 EXCEPT !.gs[p].gen = @ + 1, !.hist.yields = @ + 1]
      return(s5)   == ReturnTo(s5, s5.prompts[p].return_point, rkind, arg)
  IN return(yielded(unlink(ancestor(active(s0)))))

\* Yield back to a prompt with a one-shot resumption
mp_yield(s, p, arg)  == mp_yield_internal(s, "YIELD_ONCE", p, arg)

\* Yield back to a prompt with a multi-shot resumption
mp_myield(s, p, arg) == mp_yield_internal(s, "YIELD_MULTI", p, arg)

\* ---- one-shot resumptions ----------------------------------------------------------

\* Resume (once)
mp_resume(s, p, arg, ev) ==
  LET s1 == mp_assert(s, s.prompts[p].refcount = 1, "mp_resume:refcount==1")
      s2 == mp_assert(s1, s1.prompts[p].resume_point # NoPt, "mp_resume:resume_point")
  IN mp_prompt_resume(s2, p, arg, FALSE, ev)       \* resume back to yield point

\* Resume in tail position to a prompt `p`: jumps to the resume point without a new
\* return point, so a later yield or return lands in the frame that holds `ret`
mp_resume_tail_to(s, p, arg, ret, ev) ==
  LET s1 == mp_assert(s, s.prompts[p].refcount = 1, "tail:refcount==1")
      s2 == mp_assert(s1, ~mp_prompt_is_active(s, p), "tail:!active")
      s3 == mp_assert(s2, s.prompts[p].resume_point # NoPt, "tail:resume_point")
      linked(s4) ==
        LET res == s4.prompts[p].resume_point
        IN IF ~Ok(s4) THEN s4
           ELSE IF ~LivePt(s4, res, "yield") THEN Undefined(s4, "tail:dangling resume_point")
           ELSE mp_yield_internal_resumed(
                  mp_longjmp([s4 EXCEPT !.stacks[res[1]][res[2]].res = arg], res), ev)
  IN linked(mp_prompt_link(s3, p, ret))     \* make active using the given return point!

\* mp_resume_tail that resumes as mp_resume does, under a new return point
mp_resume_tail_nested(s, p, arg, ev) == mp_resume(s, p, arg, ev)

\* Resume in tail position (last and only resume in scope)
mp_resume_tail(s, p, arg, ev) ==
  mp_resume_tail_to(s, p, arg, s.prompts[p].return_point, ev)

\* mp_resume_drop that first runs the finally actions pending in the captured chain
mp_resume_drop_unwind(s, p) ==
  LET ch   == Walk(s.prompts, s.prompts[p].top, MaxPrompts + 1)
      fids == {k \in 1..MaxFinally :
                 \E i \in 1..Len(ch) : \E j \in 1..Len(s.stacks[ch[i]]) :
                    /\ s.stacks[ch[i]][j].kind = "finally"
                    /\ s.stacks[ch[i]][j].fid = k}
  IN mp_prompt_drop([s EXCEPT !.fin = [k \in 1..MaxFinally |->
                                          IF k \in fids THEN "released" ELSE @[k]]], p)

\* Drop the resume object without resuming
mp_resume_drop(s, p) == mp_prompt_drop(s, p)

\* ---- multi-shot resumptions ------------------------------------------------------

\* Increment the reference count of a resumption
mp_mresume_dup(s, r) ==
  IF ~Ok(s) THEN s ELSE [s EXCEPT !.mres[r].refcount = @ + 1]

\* refcount == 1 && resume_count == 0
mp_mresume_should_unwind(s, r) ==
  s.mres[r].refcount = 1 /\ s.mres[r].resume_count = 0

\* the loop of mp_mresume_drop over the saved stacklets
RECURSIVE mp_mresume_drop_saves(_, _)
mp_mresume_drop_saves(s, save) ==
  IF ~Ok(s) \/ save = <<>> THEN s
  ELSE mp_mresume_drop_saves(mp_prompt_drop(s, Head(save).prompt), Tail(save))

\* Decrement the reference count of a resumption
mp_mresume_drop(s, r) ==
  IF ~Ok(s) THEN s
  ELSE LET i  == s.mres[r].refcount
           s1 == [s EXCEPT !.mres[r].refcount = @ - 1]
           drop_prompt(s2) == mp_prompt_drop(s2, s2.mres[r].prompt)
           free(s3) == IF ~Ok(s3) THEN s3
                       ELSE [s3 EXCEPT !.mres[r] = [NoMres EXCEPT !.alloc = "freed"]]  \* mp_free(r)
       IN IF i <= 1
            \* free saved stacklets
            THEN free(drop_prompt(mp_mresume_drop_saves(s1, s1.mres[r].save)))
            ELSE s1

\* mp_gstack_save: copy the stack from sp to its base, and the prompt record with it
mp_gstack_save(s, g, sp) ==
  [frames |-> SubSeq(s.stacks[g], 1, sp[2]), extra |-> s.prompts[g]]

\* the loop of mp_prompt_save; gives the state and the list built so far
RECURSIVE mp_prompt_save_loop(_, _, _, _, _)
mp_prompt_save_loop(s, p, sp, savep, n) ==
  IF ~Ok(s) \/ n = 0 THEN [st |-> s, save |-> savep]
  ELSE
  LET contains(s1) == mp_assert(s1, sp # NoPt /\ sp[1] = p /\ sp[2] <= Len(s1.stacks[p]),
                                "gstack_save:contains")
      inside(s2) == IF Ok(s2) /\ ~(sp # NoPt /\ sp[1] = p /\ sp[2] <= Len(s2.stacks[p]))
                      THEN Undefined(s2, "gstack_save: sp outside the stack") ELSE s2
      saved(s3) ==
        LET save  == IF Ok(s3) THEN <<[prompt |-> p, gsave |-> mp_gstack_save(s3, p, sp)]>> \o savep
                     ELSE savep
            nsp   == IF s3.prompts[p].parent = NULL THEN NoPt ELSE s3.prompts[p].return_point
            parent == s3.prompts[p].parent
        IN IF parent = NULL THEN [st |-> s3, save |-> save]
           ELSE mp_prompt_save_loop(s3, parent, nsp, save, n - 1)
  IN saved(inside(contains(mp_prompt_dup(s, p))))

\* Save a full prompt chain started at `p`
mp_prompt_save(s, p) ==
  LET s1 == mp_assert(s, ~mp_prompt_is_active(s, p), "save:!active") IN
  mp_prompt_save_loop(s1, s1.prompts[p].top, s1.prompts[p].resume_point, <<>>, MaxPrompts + 1)

\* mp_gsave_restore without its second memcpy: the prompt record is copied back, the
\* stack is left as the last run left it
mp_gsave_restore_extra(s, g, gsave) ==
  IF ~Ok(s) THEN s ELSE [s EXCEPT !.prompts[g] = gsave.extra]

\* mp_gsave_restore: copy the saved bytes and the saved prompt record back
mp_gsave_restore(s, g, gsave) ==
  IF ~Ok(s) THEN s
  ELSE [s EXCEPT !.stacks[g] = gsave.frames, !.prompts[g] = gsave.extra]

RECURSIVE mp_prompt_restore_loop(_, _)
mp_prompt_restore_loop(s, save) ==
  IF ~Ok(s) \/ save = <<>> THEN s
  ELSE mp_prompt_restore_loop(mp_gsave_restore(s, Head(save).prompt, Head(save).gsave), Tail(save))

\* Restore all prompt stacks from a save
mp_prompt_restore(s, p, save) ==
  LET s1 == mp_assert(s, ~mp_prompt_is_active(s, p), "restore:!active")
      s2 == mp_assert(s1, p = Head(save).prompt, "restore:p==save->prompt")
  IN mp_prompt_restore_loop(s2, save)

\* mp_resume_get_prompt that never saves the chain
mp_resume_get_prompt_nosave(s, r) ==
  IF ~Ok(s) THEN s
  ELSE IF s.gs[s.mres[r].prompt].freed > 0
    THEN Undefined(s, "resume_get_prompt: r->prompt was freed")
  ELSE
  LET p  == s.mres[r].prompt
      s1 == IF s.mres[r].save # <<>> THEN mp_prompt_restore(s, p, s.mres[r].save) ELSE s
  IN mp_mresume_drop(mp_prompt_dup(s1, p), r)

\* Ensure proper refcount and pristine stack; the C function returns r->prompt
mp_resume_get_prompt(s, r) ==
  IF ~Ok(s) THEN s
  ELSE IF s.gs[s.mres[r].prompt].freed > 0
    THEN Undefined(s, "resume_get_prompt: r->prompt was freed")
  ELSE
  LET p  == s.mres[r].prompt
      saved(sv) == IF Ok(sv.st) THEN [sv.st EXCEPT !.mres[r].save = sv.save] ELSE sv.st
      s1 == IF s.mres[r].save # <<>> THEN mp_prompt_restore(s, p, s.mres[r].save)
            ELSE IF s.mres[r].refcount > 1 \/ s.prompts[p].refcount > 1
              THEN saved(mp_prompt_save(s, p))
            ELSE s
      s2 == mp_prompt_dup(s1, p)
  IN mp_mresume_drop(s2, r)

\* is the chain captured under p as it was when `snap` was taken?
Pristine(s, p, snap) == Captured(s, p) = snap

\* Resume with a regular resumption (and consumes `r`)
mp_mresume(s, r, arg, ev) ==
  IF ~Ok(s) THEN s
  ELSE
  LET p    == s.mres[r].prompt
      snap == s.mres[r].snap
      s1   == [s EXCEPT !.mres[r].resume_count = @ + 1]
      resume(s2) ==
        mp_prompt_resume(s2, p, arg, FALSE,                \* set a fresh prompt
                         [ev EXCEPT !.flag = Ok(s2) /\ Pristine(s2, p, snap)])
  IN resume(mp_resume_get_prompt(s1, r))

\* ---- the client -----------------------------------------------------------------------
\* The client's code is any code: whenever a client frame runs it may make any call
\* the interface offers.  In a build without assertions only calls that keep the
\* documented contract are made (the others are undefined); in a build with
\* assertions the client may also break the contract, to see what the assertions catch.

Running == status = "ok" /\ TopFrame(St).kind \in ClientKinds

Live(p)       == gs[p].st # "none" /\ gs[p].freed = 0
HandleUsed(h) == h \in used

\* the finally frames in the frames of the chain captured under p
RECURSIVE FinIn(_)
FinIn(frames) ==
  IF frames = <<>> THEN {}
  ELSE (IF Head(frames).kind = "finally" THEN {Head(frames).fid} ELSE {}) \cup FinIn(Tail(frames))

CapturedChain(s, p) == ChainFrom(s, s.prompts[p].top)
CapturedFin(s, p) ==
  UNION { FinIn(s.stacks[CapturedChain(s, p)[i]]) : i \in 1..Len(CapturedChain(s, p)) }

\* mp_prompt(fun, arg)
MpPrompt ==
  /\ Running /\ Cardinality(PIds \ FreshPrompts(St)) < MaxPrompts
  /\ Apply(mp_prompt([Act(St) EXCEPT !.last = [NoEvent EXCEPT !.op = "prompt"]], 1))

\* mp_prompt_create()
MpPromptCreate ==
  /\ Running /\ Cardinality(PIds \ FreshPrompts(St)) < MaxPrompts
  /\ Apply(mp_prompt_create([Act(St) EXCEPT !.last = [NoEvent EXCEPT !.op = "create"]]))

\* mp_prompt_enter(p, fun, arg) of a prompt that was created and not entered yet
MpPromptEnter ==
  /\ Running
  /\ \E p \in PIds :
       /\ gs[p].st = "fresh"
       /\ Apply(mp_prompt_enter([Act(St) EXCEPT !.last = [NoEvent EXCEPT !.op = "enter", !.p = p]], p, 1))

\* the start function of the prompt returns v
Return ==
  /\ Running /\ TopFrame(St).kind = "entry"
  /\ \E v \in Vals : Apply(mp_prompt_stack_entry(St, v))

\* mp_yield(p, yfn, v)
MpYield ==
  /\ Running /\ hist.yields < MaxYields
  /\ \E p \in PIds, v \in Vals :
       /\ Live(p)
       /\ debug \/ (mp_prompt_is_active(St, p) /\ mp_prompt_is_ancestor(St, p))
       /\ Apply(mp_yield([Act(St) EXCEPT
                   !.last = [NoEvent EXCEPT !.op = "yield", !.p = p, !.tp0 = top,
                                            !.prm0 = <<prompts, top>>]], p, v))

\* the yield function returns v without resuming: mp_prompt_exec_yield_fun and
\* mp_prompt_resume return v to the code that entered or resumed the prompt
YfnReturn ==
  /\ Running /\ TopFrame(St).kind = "yfn"
  /\ \E v \in Vals :
       Apply(Deliver([Pop(Pop(St)) EXCEPT !.last = [NoEvent EXCEPT !.op = "yfn_ret"]], v))

\* mp_resume(r, v) with the one-shot resumption r = <<p, generation>>
MpResume ==
  /\ Running
  /\ \E h \in hist.issued, v \in Vals :
       LET f     == TopFrame(St)
           p     == h[1]
           imm   == f.kind = "yfn" /\ f.fresh /\ f.rk = "once" /\ f.p = p /\ f.h = h[2] /\ v = f.arg
           stale == HandleUsed(h)
           ev    == [NoEvent EXCEPT !.op = IF stale THEN "stale_resume" ELSE "resume",
                                    !.p = p, !.flag = imm,
                                    !.act0 = mp_prompt_is_active(St, p)]
       IN /\ Live(p)
          /\ stale => debug
          /\ Apply(mp_resume([Act(St) EXCEPT !.last = ev,
                                 !.used = @ \cup {h, <<p, gs[p].gen>>}], p, v, ev))

\* mp_resume_tail(r, v) as the last action of the yield function that received r
MpResumeTail ==
  /\ Running /\ TopFrame(St).kind = "yfn" /\ TopFrame(St).rk = "once"
  /\ \E v \in Vals :
       LET f     == TopFrame(St)
           p     == f.p
           h     == <<p, f.h>>
           stale == HandleUsed(h)
           ev    == [NoEvent EXCEPT !.op = IF stale THEN "stale_resume" ELSE "resume_tail",
                                    !.p = p, !.act0 = mp_prompt_is_active(St, p)]
           s1    == mp_resume_tail([Act(St) EXCEPT !.last = ev,
                                       !.used = @ \cup {h, <<p, gs[p].gen>>}], p, v, ev)
       IN /\ Live(p)
          /\ stale => debug
          \* a used resumption that passes the assertions continues on a return point
          \* whose frame is gone
          /\ Apply(IF stale /\ Ok(s1) THEN Undefined([s1 EXCEPT !.last = ev], "tail:dangling return_point")
                   ELSE s1)

\* mp_resume_drop(r)
MpResumeDrop ==
  /\ Running
  /\ \E h \in hist.issued :
       LET p  == h[1]
           ev == [NoEvent EXCEPT !.op = "drop", !.p = p,
                                 !.chain0 = CapturedChain(St, p),
                                 !.fin0 = CapturedFin(St, p)]
       IN /\ ~HandleUsed(h)
          /\ Apply(mp_resume_drop([Act(St) EXCEPT !.last = ev, !.used = @ \cup {h}], p))

\* mpe_finally(local, release, body, arg): the body starts
FinallyEnter ==
  /\ Running
  /\ \E fid \in 1..MaxFinally :
       /\ fin[fid] = "none"
       /\ \A k \in 1..MaxFinally : fin[k] = "none" => fid <= k
       /\ Apply([Push(Act(St), [Frame("finally") EXCEPT !.fid = fid])
                   EXCEPT !.fin[fid] = "pending",
                          !.last = [NoEvent EXCEPT !.op = "finally_enter"]])

\* the body of mpe_finally returns: the release function is called
FinallyExit ==
  /\ Running /\ TopFrame(St).kind = "finally"
  /\ Apply([Pop(St) EXCEPT !.fin[TopFrame(St).fid] = "released",
                           !.last = [NoEvent EXCEPT !.op = "finally_exit"]])

Init ==
  /\ debug \in BOOLEAN
  /\ status = "ok" /\ failed = ""
  /\ top = NULL
  /\ prompts = [p \in PIds |-> NoPrompt]
  /\ stacks = [g \in GIds |-> IF g = 0 THEN <<Frame("main")>> ELSE <<>>]
  /\ cur = 0
  /\ mres = [r \in MIds |-> NoMres]
  /\ gs = [p \in PIds |-> [st |-> "none", freed |-> 0, gen |-> 0]]
  /\ used = {}
  /\ fin = [k \in 1..MaxFinally |-> "none"]
  /\ hist = [yields |-> 0, resumes |-> 0, issued |-> {}]
  /\ last = NoEvent
  /\ cpp = FALSE
  /\ mpe_frame_top = NoPt
  /\ rel = [k \in 1..MaxFinally |-> 0]
  /\ ecnt = [performs |-> 0, masks |-> 0, throws |-> 0, resumes |-> 0]
  /\ gstk = GstkStart

Next ==
  \/ MpPrompt
  \/ MpPromptCreate
  \/ MpPromptEnter
  \/ Return
  \/ MpYield
  \/ YfnReturn
  \/ MpResume
  \/ MpResumeTail
  \/ MpResumeDrop
  \/ FinallyEnter
  \/ FinallyExit

Spec == Init /\ [][Next]_vars

\* the thread always runs client code on the stack of the current top prompt
Sanity ==
  status = "ok" => /\ TopFrame(St).kind \in ClientKinds
                   /\ cur = top

\* ---- the client of multi-shot resumptions ------------------------------------------

\* mp_myield(p, yfn, v)
MpMyield ==
  /\ Running /\ hist.yields < MaxYields /\ FreshMres(St) # {}
  /\ \E p \in PIds, v \in Vals :
       /\ Live(p)
       /\ mp_prompt_is_active(St, p) /\ mp_prompt_is_ancestor(St, p)
       /\ Apply(mp_myield([Act(St) EXCEPT
                   !.last = [NoEvent EXCEPT !.op = "myield", !.p = p, !.tp0 = top]], p, v))

\* mp_mresume_dup(r)
MpMresumeDup ==
  /\ Running
  /\ \E r \in MIds :
       /\ mres[r].alloc = "live" /\ mres[r].refcount < MaxDup
       /\ Apply(mp_mresume_dup([Act(St) EXCEPT !.last = [NoEvent EXCEPT !.op = "mdup"]], r))

\* mp_mresume(r, v); resuming while an earlier resume of r still runs is outside
\* the contract
MpMresume ==
  /\ Running /\ hist.resumes < MaxResumes
  /\ \E r \in MIds, v \in Vals :
       LET p  == mres[r].prompt
           ev == [NoEvent EXCEPT !.op = "mresume", !.p = p,
                                 !.act0 = Live(p) /\ mp_prompt_is_active(St, p)]
       IN
       /\ mres[r].alloc = "live"
       /\ debug \/ ~ev.act0
       /\ Apply(mp_mresume([Act(St) EXCEPT !.last = ev, !.hist.resumes = @ + 1], r, v, ev))

\* mp_mresume_drop(r)
MpMresumeDrop ==
  /\ Running
  /\ \E r \in MIds :
       /\ mres[r].alloc = "live"
       /\ Apply(mp_mresume_drop([Act(St) EXCEPT !.last = [NoEvent EXCEPT !.op = "mdrop",
                                                   !.p = mres[r].prompt]], r))

\* the running code writes a local variable of its own frame
Touch ==
  /\ Running
  /\ TopFrame(St).loc = 0
  /\ Apply([Act(St) EXCEPT !.stacks[cur][Len(stacks[cur])].loc = 1,
                           !.last = [NoEvent EXCEPT !.op = "touch"]])

\* mp_prompt(fun, arg), for the programs that use multi-shot resumptions
MpPromptM ==
  /\ Cardinality({p \in PIds : gs[p].st # "none"}) < MaxMPrompts
  /\ MpPrompt

NextM ==
  \/ MpPromptM
  \/ Return
  \/ MpMyield
  \/ YfnReturn
  \/ MpMresumeDup
  \/ MpMresume
  \/ MpMresumeDrop
  \/ Touch

SpecM == Init /\ [][NextM]_vars

\* ---- the effect-handler layer (src/mpeff/mpeff.c) ----------------------------------------

MaxHandlers == 2     \* handlers ever installed by a program of the effect-handler layer
MaxEff      == 2     \* effects are 1..MaxEff
MaxFrom     == 1     \* the `from` of a mask frame is 0..MaxFrom
MaxMasks    == 2     \* mask frames ever pushed
MaxPerforms == 2     \* operations ever performed
MaxThrows   == 1     \* host exceptions ever thrown
MaxEResumes == 2     \* resumes of a resumption of the effect-handler layer ever made
MaxOps      == 3     \* handlers installed plus operations performed, where operations yield

Effs    == 1..MaxEff
OpKinds == {"ABORT", "NEVER", "TAIL_NOOP", "TAIL", "SCOPED_ONCE", "ONCE", "MULTI"}
\* frames of the shadow stack (mpe_frame_t and its extensions)
ShadowKinds == {"handle", "mask", "under", "mfinally"}

FrameAt(s, f) == s.stacks[f[1]][f[2]]

\* does the pointer f point to a frame that is still on its stack?
LiveFrame(s, f) ==
  /\ f # NoPt
  /\ f[1] = 0 \/ s.gs[f[1]].freed = 0
  /\ f[2] <= Len(s.stacks[f[1]])
  /\ FrameAt(s, f).kind \in ShadowKinds

\* the number of frames on all stacks: no walk over frames takes more steps
RECURSIVE FrameCount(_, _)
FrameCount(s, g) ==
  Len(s.stacks[g]) + (IF g = 0 THEN 0 ELSE FrameCount(s, g - 1))

\* the frames reached from f by following frame.parent, as far as they are live
RECURSIVE FramesFrom(_, _, _)
FramesFrom(s, f, n) ==
  IF f = NoPt \/ n = 0 \/ ~LiveFrame(s, f) THEN <<>>
  ELSE <<f>> \o FramesFrom(s, FrameAt(s, f).fparent, n - 1)

FrameList(s) == FramesFrom(s, s.mpe_frame_top, FrameCount(s, MaxIds))

\* mpe_with_frame(f), entering the scope: push the frame on top
mpe_with_frame(s, fr) ==
  IF ~Ok(s) THEN s
  ELSE LET s1 == Push(s, [fr EXCEPT !.fparent = s.mpe_frame_top])
       IN [s1 EXCEPT !.mpe_frame_top = <<s1.cur, Len(s1.stacks[s1.cur])>>]

\* mpe_with_frame(f), leaving the scope (the frame is the top frame of the current
\* stack): ~mpe_raii_with_frame_t in C++, the third clause of the for loop in C
mpe_with_frame_leave(s) ==
  IF ~Ok(s) THEN s
  ELSE LET f  == <<s.cur, Len(s.stacks[s.cur])>>
           s1 == IF s.cpp THEN mp_assert(s, s.mpe_frame_top = f, "with_frame:mpe_frame_top==f")
                 ELSE s
       IN IF ~Ok(s1) THEN s1
          ELSE [s1 EXCEPT !.mpe_frame_top = FrameAt(s1, f).fparent]

\* ... and the function that holds the frame returns
mpe_with_frame_exit(s) ==
  LET return(s1) == IF ~Ok(s1) THEN s1 ELSE Pop(s1) IN return(mpe_with_frame_leave(s))

\* the loop `do { f = f->parent; } while (f != NULL && f->effect != ueff)` of mpe_find;
\* gives the frame it stops at (NoPt for NULL), or ub when it reads a dead frame
RECURSIVE mpe_find_skip(_, _, _, _)
mpe_find_skip(s, f, ueff, n) ==
  LET g == FrameAt(s, f).fparent IN
  IF g = NoPt THEN [f |-> NoPt, ub |-> FALSE]
  ELSE IF ~LiveFrame(s, g) \/ n = 0 THEN [f |-> NoPt, ub |-> TRUE]
  ELSE IF FrameAt(s, g).kind = "handle" /\ FrameAt(s, g).eff = ueff THEN [f |-> g, ub |-> FALSE]
  ELSE mpe_find_skip(s, g, ueff, n - 1)

\* the while loop of mpe_find where a mask frame counts whatever its `from` is
RECURSIVE mpe_find_loop_any_from(_, _, _, _, _)
mpe_find_loop_any_from(s, f, opeff, mask_level, n) ==
  IF f = NoPt THEN [h |-> NoPt, ub |-> FALSE]
  ELSE IF ~LiveFrame(s, f) \/ n = 0 THEN [h |-> NoPt, ub |-> TRUE]
  ELSE
  LET fr == FrameAt(s, f) IN
  IF fr.kind = "handle" /\ fr.eff = opeff THEN
    IF mask_level <= 0 THEN [h |-> f, ub |-> FALSE]
    ELSE mpe_find_loop_any_from(s, fr.fparent, opeff, mask_level - 1, n - 1)
  ELSE IF fr.kind = "under" THEN
    LET sk == mpe_find_skip(s, f, fr.eff, n) IN
    IF sk.ub THEN [h |-> NoPt, ub |-> TRUE]
    ELSE IF sk.f = NoPt THEN [h |-> NoPt, ub |-> FALSE]
    ELSE mpe_find_loop_any_from(s, FrameAt(s, sk.f).fparent, opeff, mask_level, n - 1)
  ELSE mpe_find_loop_any_from(s, fr.fparent, opeff,
                              IF fr.kind = "mask" /\ fr.eff = opeff THEN mask_level + 1
                              ELSE mask_level,
                              n - 1)

\* the while loop of mpe_find, at frame f with the given mask level
RECURSIVE mpe_find_loop(_, _, _, _, _)
mpe_find_loop(s, f, opeff, mask_level, n) ==
  IF f = NoPt THEN [h |-> NoPt, ub |-> FALSE]
  ELSE IF ~LiveFrame(s, f) \/ n = 0 THEN [h |-> NoPt, ub |-> TRUE]
  ELSE
  LET fr == FrameAt(s, f) IN
  IF fr.kind = "handle" /\ fr.eff = opeff THEN
    IF mask_level <= 0 THEN [h |-> f, ub |-> FALSE]       \* found our handler
    ELSE mpe_find_loop(s, fr.fparent, opeff, mask_level - 1, n - 1)
  ELSE IF fr.kind = "under" THEN
    \* skip to the matching handler of this `under` frame
    LET sk == mpe_find_skip(s, f, fr.eff, n) IN
    IF sk.ub THEN [h |-> NoPt, ub |-> TRUE]
    ELSE IF sk.f = NoPt THEN [h |-> NoPt, ub |-> FALSE]   \* break
    ELSE mpe_find_loop(s, FrameAt(s, sk.f).fparent, opeff, mask_level, n - 1)
  ELSE IF fr.kind = "mask" THEN
    \* increase masking level
    mpe_find_loop(s, fr.fparent, opeff,
                  IF fr.eff = opeff /\ fr.from <= mask_level THEN mask_level + 1 ELSE mask_level,
                  n - 1)
  ELSE mpe_find_loop(s, fr.fparent, opeff, mask_level, n - 1)

\* mpe_find that does not see mask frames
mpe_find_unmasked(s, opeff) ==
  mpe_find_loop(s, s.mpe_frame_top, opeff, 0 - 1, FrameCount(s, MaxIds))

\* Find the innermost handler of an effect; h = NoPt: there is none
mpe_find(s, opeff) ==
  mpe_find_loop(s, s.mpe_frame_top, opeff, 0, FrameCount(s, MaxIds))

\* what happened during the operation that just completed, in order
Trace(s, x) == IF ~Ok(s) THEN s ELSE [s EXCEPT !.last.tr = Append(@, x)]

\* a pointer to an mpe_resume_env_t {local, result, unwind}, as one value
RenvBase == MaxVal + 1
Renv(local, result, unwind) ==
  local + RenvBase * result + RenvBase * RenvBase * (IF unwind THEN 1 ELSE 0)
RenvLocal(x)  == x % RenvBase
RenvResult(x) == (x \div RenvBase) % RenvBase
RenvUnwind(x) == (x \div (RenvBase * RenvBase)) = 1

\* the release function of a finally frame is called: (f.fun)(f.local)
Release(s, fid) ==
  IF ~Ok(s) THEN s
  ELSE Trace([s EXCEPT !.rel[fid] = @ + 1], <<"release", fid>>)

\* the yield function returns v: mp_prompt_exec_yield_fun and mp_prompt_resume return
\* v to the code that entered or resumed the prompt
yfn_return(s, v) ==
  IF ~Ok(s) THEN s ELSE Deliver(Pop(Pop(s)), v)

\* mpe_perform_op_clause_abort, run by mp_prompt_exec_yield_fun (the top frame is the
\* yield function's): drop the resumption, then run the operation function with a
\* NULL resumption.  unw: the operation is mpe_op_unwind, whose function returns arg.
mpe_perform_op_clause_abort(s, h, local, unw) ==
  IF ~Ok(s) THEN s
  ELSE
  LET f  == TopFrame(s)
      dropped(s1) ==
        IF ~Ok(s1) THEN s1
        ELSE IF unw THEN yfn_return(s1, f.arg)             \* mpe_handle_op_unwind
        ELSE [s1 EXCEPT !.stacks[s1.cur][Len(s1.stacks[s1.cur])] =
                           [@ EXCEPT !.rk = "null", !.hloc = h, !.local = local,
                                     !.opk = FrameAt(s, h).opk, !.own = FALSE]]
  IN dropped(Trace(mp_resume_drop(Trace(s, <<"drop", f.p>>), f.p), <<"opfun", h>>))

\* Never resumption: yield to the handler's prompt; mpe_frame_top stays as it is
mpe_perform_yield_to_abort(s, h, arg, unw) ==
  IF ~Ok(s) THEN s
  ELSE IF ~LiveFrame(s, h) THEN Undefined(s, "yield_to_abort: dead handler frame")
  ELSE LET local == FrameAt(s, h).local
           s1 == mp_yield(s, FrameAt(s, h).p, arg)
       IN mpe_perform_op_clause_abort(s1, h, local, unw)

\* A host exception (or an mpe_unwind_exception) propagates from the top frame of the
\* current stack.  x = [kind |-> "host"] or [kind |-> "unwind", target, arg, unw].
RECURSIVE Raise(_, _, _)
Raise(s, x, n) ==
  IF ~Ok(s) \/ n = 0 THEN s
  ELSE
  LET f   == TopFrame(s)
      loc == <<s.cur, Len(s.stacks[s.cur])>>
  IN
  IF f.kind = "main" THEN
    \* the program's own try/catch
    Trace(s, <<"caught", x.kind, s.cur>>)
  ELSE IF f.kind \in {"mask", "under"} THEN
    Raise(mpe_with_frame_exit(s), x, n - 1)             \* ~mpe_raii_with_frame_t
  ELSE IF f.kind = "mfinally" THEN
    \* mpe_finally: catch (...) { (f.fun)(f.local); throw; }
    Raise(Release(mpe_with_frame_exit(s), f.fid), x, n - 1)
  ELSE IF f.kind = "handle" THEN
    \* mpe_handle_start: the frame is popped from the shadow stack, then
    \* catch (const mpe_unwind_exception& e)
    LET caught(s2) ==
          IF ~Ok(s2) THEN s2
          ELSE IF x.kind = "unwind" /\ x.target = loc
            THEN mpe_perform_yield_to_abort(Trace(s2, <<"catch", loc>>), loc, x.arg, x.unw)
          ELSE Raise(Pop(s2), x, n - 1)                    \* throw;
    IN caught(mpe_with_frame_leave(s))
  ELSE IF f.kind = "entry" THEN
    \* mp_prompt_stack_entry: catch (...), then mp_prompt_exec_yield_fun re-throws
    LET p   == f.p
        rethrow(s3) == Raise(Trace(mp_prompt_drop(s3, p), <<"rethrow", p, s3.cur>>), x, n - 1)
        exec(s2)    == rethrow(mp_assert(s2, ~mp_prompt_is_active(s2, p), "exec:!active"))
        return(s1) ==
          LET s1t == Trace(s1, <<"unlink", p, s1.top>>)
              ret == s1.prompts[p].return_point
          IN IF ~Ok(s1t) THEN s1t
             ELSE IF ~LivePt(s1t, ret, "resume") THEN Undefined(s1t, "dangling return_point")
             ELSE exec(mp_longjmp([s1t EXCEPT !.stacks[ret[1]][ret[2]].rk = "EXCEPTION"], ret))
    IN return(mp_prompt_unlink(s, p, NoPt))
  ELSE Raise(Pop(s), x, n - 1)

\* mpe_unwind_to: unwind to the handler `target` and run the operation there
mpe_unwind_to(s, target, arg, unw) ==
  IF ~Ok(s) THEN s
  ELSE IF s.cpp
    THEN Raise(Trace(s, <<"throw", "unwind">>),
               [kind |-> "unwind", target |-> target, arg |-> arg, unw |-> unw],
               FrameCount(s, MaxIds) + 1)
    \* TODO: walk the handlers and invoke finally frames
    ELSE mpe_perform_yield_to_abort(s, target, arg, unw)

\* mpe_perform_yield_to after `resumed!` that does not take the new local from renv
mpe_perform_yield_to_resumed_keep_local(s) ==
  IF ~Ok(s) \/ TopFrame(s).kind # "perform" THEN s
  ELSE
  LET pf   == TopFrame(s)
      h    == pf.hloc
      renv == s.last.rv
      s1   == [s EXCEPT !.stacks[h[1]][h[2]].fparent = s.mpe_frame_top,
                        !.mpe_frame_top = pf.rtop]
      s2   == Trace(s1, <<"resumed", h>>)
  IN IF ~LiveFrame(s, h) THEN Undefined(s, "yield_to: dead handler frame")
     ELSE IF RenvUnwind(renv) THEN mpe_unwind_to(s2, h, RenvResult(renv), TRUE)
     ELSE Deliver(Pop(s2), RenvResult(renv))

\* mpe_perform_yield_to after `resumed!` that leaves the parent of the handler frame as
\* it was when the operation was performed
mpe_perform_yield_to_resumed_no_relink(s) ==
  IF ~Ok(s) \/ TopFrame(s).kind # "perform" THEN s
  ELSE
  LET pf   == TopFrame(s)
      h    == pf.hloc
      renv == s.last.rv
      s1   == [s EXCEPT !.stacks[h[1]][h[2]].local = RenvLocal(renv),
                        !.mpe_frame_top = pf.rtop]
      s2   == Trace(s1, <<"resumed", h>>)
  IN IF ~LiveFrame(s, h) THEN Undefined(s, "yield_to: dead handler frame")
     ELSE IF RenvUnwind(renv) THEN mpe_unwind_to(s2, h, RenvResult(renv), TRUE)
     ELSE Deliver(Pop(s2), RenvResult(renv))

\* mpe_perform_yield_to after `resumed!`: the thread is in the frame of
\* mpe_perform_yield_to (the top frame of the current stack), mp_yield returned renv
mpe_perform_yield_to_resumed(s) ==
  IF ~Ok(s) \/ TopFrame(s).kind # "perform" THEN s
  ELSE
  LET pf   == TopFrame(s)
      h    == pf.hloc
      renv == s.last.rv
      s1   == [s EXCEPT !.stacks[h[1]][h[2]].local = RenvLocal(renv),      \* set new state
                        !.stacks[h[1]][h[2]].fparent = s.mpe_frame_top,    \* relink handlers
                        !.mpe_frame_top = pf.rtop]
      s2   == Trace(s1, <<"resumed", h>>)
  IN IF ~LiveFrame(s, h) THEN Undefined(s, "yield_to: dead handler frame")
     ELSE IF RenvUnwind(renv) THEN mpe_unwind_to(s2, h, RenvResult(renv), TRUE)
     ELSE Deliver(Pop(s2), RenvResult(renv))

\* mpe_perform_op_clause, run by mp_prompt_exec_yield_fun: the frame of the yield
\* function becomes the operation function called with (resume, env->local, env->oparg)
mpe_perform_op_clause(s, rkind, h, local) ==
  IF ~Ok(s) THEN s
  ELSE Trace([s EXCEPT !.stacks[s.cur][Len(s.stacks[s.cur])] =
                         [@ EXCEPT !.hloc = h, !.local = local, !.opk = rkind, !.own = TRUE]],
             <<"opfun", h>>)

\* mp_resume_multi(mpr) in the yield function of an mp_yield: the resumption becomes a
\* multi-shot one with refcount 1 and resume_count 0
mp_resume_multi(s, p, arg) == mp_myield(s, p, arg)

\* mp_resume_dup, mp_resume_should_unwind of a multi-shot resumption
mp_resume_dup(s, r)           == mp_mresume_dup(s, r)
mp_resume_should_unwind(s, r) == mp_mresume_should_unwind(s, r)

\* Yield
mpe_perform_yield_to(s, rkind, h, arg) ==
  IF ~Ok(s) THEN s
  ELSE
  LET hf == FrameAt(s, h)
      s1 == Push(s, [Frame("perform") EXCEPT !.hloc = h, !.opk = rkind, !.arg = arg,
                                             !.rtop = s.mpe_frame_top])   \* save current top
      s2 == [s1 EXCEPT !.mpe_frame_top = hf.fparent]                      \* and unlink handlers
      \* yield up
      s3 == IF rkind = "MULTI" THEN mp_resume_multi(s2, hf.p, arg) ELSE mp_yield(s2, hf.p, arg)
  IN mpe_perform_op_clause(s3, rkind, h, hf.local)

\* the operation function is called in place with an INPLACE resumption {&h->local}
\* (fl: the shadow stack when the operation was performed)
mpe_opfun_inplace(s, h, arg, opkind, fl) ==
  IF ~Ok(s) THEN s
  ELSE Trace(Push(s, [Frame("opfun") EXCEPT !.hloc = h, !.arg = arg, !.opk = opkind,
                                            !.local = FrameAt(s, h).local, !.own = TRUE,
                                            !.tp = s.top, !.chain = Chain(s), !.fl = fl]),
             <<"opfun", h>>)

\* Tail resumptive under an "under" frame
mpe_perform_under(s, h, arg) ==
  mpe_opfun_inplace(mpe_with_frame(s, [Frame("under") EXCEPT !.eff = FrameAt(s, h).eff]),
                    h, arg, "TAIL", FrameList(s))

mpe_perform_at(s, h, arg) ==
  LET opkind == FrameAt(s, h).opk IN
  IF opkind = "TAIL_NOOP" THEN
    \* tail resumptive, calls no operations, execute in place
    mpe_opfun_inplace(s, h, arg, "TAIL_NOOP", FrameList(s))
  ELSE IF opkind = "TAIL" THEN
    \* tail resumptive; execute in place under an "under" frame
    mpe_perform_under(s, h, arg)
  ELSE IF opkind = "SCOPED_ONCE" THEN mpe_perform_yield_to(s, "SCOPED_ONCE", h, arg)
  ELSE IF opkind = "ONCE" THEN mpe_perform_yield_to(s, "ONCE", h, arg)
  ELSE IF opkind = "NEVER" THEN mpe_unwind_to(s, h, arg, FALSE)
  ELSE IF opkind = "ABORT" THEN mpe_perform_yield_to_abort(s, h, arg, FALSE)
  ELSE mpe_perform_yield_to(s, "MULTI", h, arg)

\* the mpe_finally frames that are inside the handler frame h on the shadow stack
FinallyBetween(s, h) ==
  LET fl == FrameList(s) IN
  IF h = NoPt \/ ~\E j \in 1..Len(fl) : fl[j] = h THEN {}
  ELSE {FrameAt(s, fl[i]).fid : i \in {i \in 1..Len(fl) :
           /\ FrameAt(s, fl[i]).kind = "mfinally"
           /\ \A j \in 1..i : fl[j] # h}}

\* mpe_perform whose unhandled operation returns its argument
mpe_perform_return_arg(s, opeff, arg) ==
  LET found(r) ==
        LET s1 == [s EXCEPT !.last.h = r.h, !.last.fb = FinallyBetween(s, r.h),
                            !.last.k = IF r.ub \/ r.h = NoPt THEN "none" ELSE FrameAt(s, r.h).opk] IN
        IF r.ub THEN Undefined(s1, "mpe_find: dead frame")
        ELSE IF r.h = NoPt THEN Deliver(Trace(s1, <<"unhandled", opeff>>), arg)
        ELSE mpe_perform_at(s1, r.h, arg)
  IN found(mpe_find(s, opeff))

\* Perform finds the innermost handler and performs the operation
mpe_perform(s, opeff, arg) ==
  LET found(r) ==
        LET s1 == [s EXCEPT !.last.h = r.h, !.last.fb = FinallyBetween(s, r.h),
                            !.last.k = IF r.ub \/ r.h = NoPt THEN "none" ELSE FrameAt(s, r.h).opk] IN
        IF r.ub THEN Undefined(s1, "mpe_find: dead frame")
        ELSE IF r.h = NoPt
          THEN Deliver(Trace(s1, <<"unhandled", opeff>>), NULL)     \* mpe_unhandled_operation
        ELSE mpe_perform_at(s1, r.h, arg)
  IN found(mpe_find(s, opeff))

\* the operation function called in place returns v (the top frame is its frame)
mpe_opfun_inplace_return(s, v) ==
  IF ~Ok(s) THEN s
  ELSE LET f  == TopFrame(s)
           s1 == Pop(s)
           return(s2) ==
             IF ~Ok(s2) THEN s2
             ELSE [Deliver(s2, v) EXCEPT !.last.fl0 = f.fl, !.last.fl1 = FrameList(s2),
                                         !.last.chain0 = f.chain, !.last.chain1 = Chain(s2),
                                         !.last.tp0 = f.tp, !.last.tp1 = s2.top,
                                         !.last.h = f.hloc]
       IN return(IF f.opk = "TAIL" THEN mpe_with_frame_exit(s1) ELSE s1)

\* Resume with a multi-shot resumption in tail position
mp_mresume_tail(s, r, arg, ev) ==
  IF ~Ok(s) THEN s
  ELSE
  LET ret == s.mres[r].tail_return_point IN
  IF ret = NoPt THEN mp_mresume(s, r, arg, ev)
  ELSE LET p  == s.mres[r].prompt
           s1 == [s EXCEPT !.mres[r].tail_return_point = NoPt,
                           !.mres[r].resume_count = @ + 1]
           s2 == mp_resume_get_prompt(s1, r)
       IN mp_resume_tail_to(s2, p, arg, ret, ev)

\* the resumption held by the operation function f points to freed memory (its prompt
\* or its record is gone), or to a prompt that is not suspended at the yield it stands for
DeadResumption(s, f) ==
  IF f.opk = "MULTI" THEN s.mres[f.h].alloc # "live" \/ s.gs[s.mres[f.h].prompt].freed > 0
  ELSE \/ s.gs[f.p].freed > 0
       \/ s.gs[f.p].gen # f.h
       \/ mp_prompt_is_active(s, f.p)

\* the resumption of the running operation function is used or given up
Disown(s) == [s EXCEPT !.stacks[s.cur][Len(s.stacks[s.cur])].own = FALSE]

mpe_resume_internal(s, final, local, arg, unwind) ==
  IF Ok(s) /\ DeadResumption(s, TopFrame(s)) THEN Undefined(s, "resume: dead resumption") ELSE
  LET f    == TopFrame(s)
      s0   == mp_assert(s, f.opk \in {"SCOPED_ONCE", "ONCE", "MULTI"},
                        "resume:kind>=SCOPED_ONCE")
      renv == Renv(local, arg, unwind)
      s1   == IF f.opk = "SCOPED_ONCE" THEN mp_resume(Disown(s0), f.p, renv, s0.last)
              ELSE IF f.opk = "ONCE"
                THEN mp_resume(Disown(mp_assert(s0, final, "resume:final")), f.p, renv, s0.last)
              ELSE IF final THEN mp_mresume(Disown(s0), f.h, renv, s0.last)
              ELSE mp_mresume(mp_resume_dup(s0, f.h), f.h, renv, s0.last)
  IN mpe_perform_yield_to_resumed(s1)

\* Resume to unwind (e.g. run destructors and finally clauses)
mpe_resume_unwind(s) == mpe_resume_internal(s, TRUE, NULL, NULL, TRUE)

\* Last use of a resumption
mpe_resume_final(s, local, arg) == mpe_resume_internal(s, TRUE, local, arg, FALSE)

\* Regular resume
mpe_resume(s, local, arg) == mpe_resume_internal(s, FALSE, local, arg, FALSE)

\* mpe_resume_tail of an in-place resumption that leaves the handler's local as it is
mpe_resume_tail_keep_local(s, local, arg) ==
  IF ~Ok(s) THEN s ELSE mpe_opfun_inplace_return(s, arg)

\* Last resume in tail-position (the top frame is the operation function's)
mpe_resume_tail(s, local, arg) ==
  IF ~Ok(s) THEN s
  ELSE
  LET f == TopFrame(s)
      h == f.hloc
      renv == Renv(local, arg, FALSE)
  IN IF f.kind = "opfun" THEN                      \* MPE_RESUMPTION_INPLACE
       IF ~LiveFrame(s, h) THEN Undefined(s, "resume_tail: dead handler frame")
       ELSE mpe_opfun_inplace_return([s EXCEPT !.stacks[h[1]][h[2]].local = local], arg)
     ELSE IF DeadResumption(s, f) THEN Undefined(s, "resume_tail: dead resumption")
     ELSE mpe_perform_yield_to_resumed(
            IF f.opk = "SCOPED_ONCE" THEN mp_resume_tail(Disown(s), f.p, renv, s.last)
            ELSE IF f.opk = "ONCE" THEN mp_resume_tail(Disown(s), f.p, renv, s.last)
            ELSE mp_mresume_tail(Disown(s), f.h, renv, s.last))

\* Release without resuming
mpe_resume_release(s) ==
  IF ~Ok(s) THEN s
  ELSE
  LET f == TopFrame(s) IN
  IF f.rk = "null" THEN s          \* a NULL (OP_NEVER or OP_ABORT) resumption
  ELSE IF f.opk = "ONCE" THEN mpe_resume_unwind(s)
  ELSE LET s1 == mp_assert(s, f.opk = "MULTI", "release:kind==MULTI") IN
       IF ~Ok(s1) THEN s1
       ELSE IF f.opk # "MULTI" THEN Undefined(s1, "release: mp.resume of another kind")
       ELSE IF DeadResumption(s1, f) THEN Undefined(s1, "release: dead resumption")
       ELSE IF mp_resume_should_unwind(s1, f.h) THEN mpe_resume_unwind(s1)
       ELSE mp_mresume_drop(Disown(Trace(s1, <<"mdrop", f.h>>)), f.h)

\* mpe_mask: the body starts
mpe_mask(s, eff, from) ==
  mpe_with_frame(s, [Frame("mask") EXCEPT !.eff = eff, !.from = from])

\* mpe_finally: the body starts
mpe_finally(s, fid) ==
  mpe_with_frame(s, [Frame("mfinally") EXCEPT !.fid = fid])

\* mpe_handle = mp_prompt(&mpe_handle_start, &env); mpe_handle_start pushes the handle
\* frame and calls the body
mpe_handle(s, eff, opkind, local, arg) ==
  LET p  == NewPrompt(s)
      s1 == mp_prompt(s, arg)
  IN mpe_with_frame(s1, [Frame("handle") EXCEPT !.p = p, !.eff = eff, !.opk = opkind,
                                                !.local = local, !.arg = arg])

\* the body of mpe_mask, mpe_finally or mpe_handle_start returns v (the top frame of
\* the current stack is theirs)
mpe_body_return(s, v) ==
  IF ~Ok(s) THEN s
  ELSE
  LET f  == TopFrame(s)
      s1 == mpe_with_frame_exit(s)
  IN IF f.kind = "mask" THEN Deliver(s1, v)
     ELSE IF f.kind = "mfinally" THEN Deliver(Release(s1, f.fid), v)
     ELSE mp_prompt_stack_entry(s1, v)       \* hdef->resultfun == NULL

\* ---- the client of the effect-handler layer ---------------------------------------------
\* Bodies and operation functions are any code: whenever one runs it may install a
\* handler, mask an effect, protect a call with mpe_finally, perform an operation,
\* return, or (compiled as C++) throw; an operation function may also use its
\* resumption as its kind allows.

EClientKinds == {"main", "handle", "mask", "mfinally", "opfun", "yfn"}
RunningE == status = "ok" /\ TopFrame(St).kind \in EClientKinds

\* an operation function of a TAIL_NOOP operation performs no operations
Plain == ~(TopFrame(St).kind = "opfun" /\ TopFrame(St).opk = "TAIL_NOOP")
\* the programs looked at push mask and finally frames in the body of a handler
InBody == TopFrame(St).kind \in {"handle", "mask", "mfinally"}

\* the mpe_finally frames that are on a stack: their bodies have not ended
FinallyLive(s) ==
  {fid \in 1..MaxFinally :
     \E g \in GIds : \E i \in 1..Len(s.stacks[g]) :
        s.stacks[g][i].kind = "mfinally" /\ s.stacks[g][i].fid = fid}

\* the stack that the mpe_finally frame fid is on (-1: none)
FinallyStack(s, fid) ==
  IF fid \notin FinallyLive(s) THEN 0 - 1
  ELSE CHOOSE g \in GIds : \E i \in 1..Len(s.stacks[g]) :
         s.stacks[g][i].kind = "mfinally" /\ s.stacks[g][i].fid = fid

Ev(op) == [NoEvent EXCEPT !.op = op, !.fl0 = FrameList(St), !.chain0 = Chain(St), !.tp0 = top,
                         !.g0 = cur, !.fin0 = FinallyLive(St)]

\* the kinds of operations whose function runs in place, and those that leave the
\* perform site
TailKinds    == {"TAIL_NOOP", "TAIL"}
ControlKinds == {"ABORT", "NEVER", "SCOPED_ONCE", "ONCE", "MULTI"}

HandlerCount == Cardinality({p \in PIds : gs[p].st # "none"})

\* mpe_handle(hdef, local, body, arg), for a handler with an operation of one of kinds
MpeHandleOf(kinds) ==
  /\ RunningE /\ Plain
  /\ HandlerCount < MaxHandlers
  /\ \E eff \in Effs, opkind \in kinds :
       Apply(mpe_handle([St EXCEPT !.last = [Ev("handle") EXCEPT !.e = eff, !.k = opkind]],
                        eff, opkind, 1, 1))

\* mpe_perform(optag, arg)
MpePerformOf(n) ==
  /\ RunningE /\ Plain /\ ecnt.performs < n
  /\ \E eff \in Effs :
       Apply(mpe_perform([St EXCEPT !.last = [Ev("perform") EXCEPT !.e = eff, !.v = 1],
                                    !.ecnt.performs = @ + 1], eff, 1))

MpeHandle == HandlerCount + ecnt.performs < MaxOps /\ MpeHandleOf(ControlKinds)

MpePerform == HandlerCount + ecnt.performs < MaxOps /\ MpePerformOf(MaxPerforms)

\* mpe_mask(eff, from, body, arg)
MpeMask ==
  /\ RunningE /\ InBody /\ ecnt.masks < MaxMasks
  /\ \E eff \in Effs, from \in 0..MaxFrom :
       Apply(mpe_mask([St EXCEPT !.last = [Ev("mask") EXCEPT !.e = eff],
                                 !.ecnt.masks = @ + 1], eff, from))

\* mpe_finally(local, release, body, arg)
MpeFinally ==
  /\ RunningE /\ InBody
  /\ \E fid \in 1..MaxFinally :
       /\ fin[fid] = "none"
       /\ \A k \in 1..MaxFinally : fin[k] = "none" => fid <= k
       /\ Apply(mpe_finally([St EXCEPT !.last = Ev("finally"), !.fin[fid] = "pending"], fid))

\* the body of a handler, a mask or a finally returns v
MpeBodyReturn ==
  /\ RunningE /\ TopFrame(St).kind \in {"handle", "mask", "mfinally"}
  /\ Apply(mpe_body_return([St EXCEPT !.last = [Ev("body_ret") EXCEPT !.nv = 1]], 1))

\* an operation function returns v without resuming
MpeOpfunReturn ==
  /\ RunningE /\ TopFrame(St).kind \in {"opfun", "yfn"}
  /\ \E v \in {MaxVal} :
       LET s == [St EXCEPT !.last = [Ev("opfun_ret") EXCEPT !.nv = v, !.h = TopFrame(St).hloc,
                                                            !.k = TopFrame(St).opk]]
       IN Apply(IF TopFrame(St).kind = "opfun" THEN mpe_opfun_inplace_return(s, v)
                ELSE yfn_return(s, v))

\* mpe_resume_tail(r, l, v) as the last action of an operation function
MpeResumeTail ==
  /\ RunningE /\ TopFrame(St).kind \in {"opfun", "yfn"} /\ TopFrame(St).own
  /\ \E l \in Vals, v \in Vals :
       /\ l # v
       /\ Apply(mpe_resume_tail([St EXCEPT !.last = [Ev("resume_tail") EXCEPT
                                             !.nl = l, !.nv = v, !.h = TopFrame(St).hloc,
                                             !.k = TopFrame(St).opk]], l, v))

\* mpe_resume(r, l, v) (a ONCE resumption must be resumed with mpe_resume_final) and
\* mpe_resume_final(r, l, v)
MpeResume ==
  /\ RunningE /\ TopFrame(St).kind = "yfn" /\ TopFrame(St).own
  /\ ecnt.resumes < MaxEResumes
  /\ \E l \in Vals, v \in Vals, final \in BOOLEAN :
       /\ l # v
       /\ debug \/ final \/ TopFrame(St).opk # "ONCE"
       /\ Apply(mpe_resume_internal(
                  [St EXCEPT !.last = [Ev(IF final THEN "resume_final" ELSE "resume") EXCEPT
                                          !.nl = l, !.nv = v, !.h = TopFrame(St).hloc,
                                          !.k = TopFrame(St).opk],
                             !.ecnt.resumes = @ + 1], final, l, v, FALSE))

\* the mpe_finally frames of the computation captured under the prompt p
CapturedFinally(s, p) ==
  IF p = NULL THEN {}
  ELSE {fid \in 1..MaxFinally :
          \E i \in 1..Len(CapturedChain(s, p)) :
             \E j \in 1..Len(s.stacks[CapturedChain(s, p)[i]]) :
                /\ s.stacks[CapturedChain(s, p)[i]][j].kind = "mfinally"
                /\ s.stacks[CapturedChain(s, p)[i]][j].fid = fid}

\* mpe_resume_release(r); a SCOPED_ONCE resumption cannot be released
MpeResumeRelease ==
  /\ RunningE /\ TopFrame(St).kind = "yfn"
  /\ TopFrame(St).own \/ TopFrame(St).rk = "null"
  /\ debug \/ TopFrame(St).opk # "SCOPED_ONCE"
  /\ Apply(mpe_resume_release(
             [St EXCEPT !.last = [Ev("release") EXCEPT !.h = TopFrame(St).hloc,
                                     !.k = TopFrame(St).opk,
                                     !.flag = TopFrame(St).rk = "multi"
                                              /\ mp_resume_should_unwind(St, TopFrame(St).h),
                                     !.v = IF TopFrame(St).rk = "multi"
                                           THEN mres[TopFrame(St).h].refcount ELSE 0,
                                     !.fb = IF TopFrame(St).rk = "multi"
                                            THEN CapturedFinally(St, mres[TopFrame(St).h].prompt)
                                            ELSE {}]]))

\* a host exception is thrown (C++)
MpeThrow ==
  /\ RunningE /\ cpp /\ ecnt.throws < MaxThrows
  /\ Apply(Raise([St EXCEPT !.last = [Ev("throw") EXCEPT
                                         !.tr = <<<<"throw", "host">>>>,
                                         !.fg = [fid \in 1..MaxFinally |-> FinallyStack(St, fid)]],
                            !.ecnt.throws = @ + 1],
                 [kind |-> "host"], FrameCount(St, MaxIds) + 1))

InitE ==
  /\ debug \in BOOLEAN /\ cpp \in BOOLEAN
  /\ status = "ok" /\ failed = ""
  /\ top = NULL
  /\ prompts = [p \in PIds |-> NoPrompt]
  /\ stacks = [g \in GIds |-> IF g = 0 THEN <<Frame("main")>> ELSE <<>>]
  /\ cur = 0
  /\ mres = [r \in MIds |-> NoMres]
  /\ gs = [p \in PIds |-> [st |-> "none", freed |-> 0, gen |-> 0]]
  /\ used = {}
  /\ fin = [k \in 1..MaxFinally |-> "none"]
  /\ hist = [yields |-> 0, resumes |-> 0, issued |-> {}]
  /\ last = NoEvent
  /\ mpe_frame_top = NoPt
  /\ rel = [k \in 1..MaxFinally |-> 0]
  /\ ecnt = [performs |-> 0, masks |-> 0, throws |-> 0, resumes |-> 0]
  /\ gstk = GstkStart

NextE ==
  \/ MpeHandle
  \/ MpeFinally
  \/ MpePerform
  \/ MpeBodyReturn
  \/ MpeOpfunReturn
  \/ MpeResumeTail
  \/ MpeResume
  \/ MpeResumeRelease
  \/ MpeThrow

SpecE == InitE /\ [][NextE]_vars

\* programs that dispatch: handlers of operations that run in place, and masks
MpeHandleF == MpeHandleOf(TailKinds)

MpePerformF == MpePerformOf(MaxPerforms)

NextF ==
  \/ MpeHandleF
  \/ MpeMask
  \/ MpePerformF
  \/ MpeBodyReturn
  \/ MpeOpfunReturn
  \/ MpeResumeTail

SpecF == InitE /\ [][NextF]_vars

\* the counter program (src/test/src/counter.c): main calls state_handle(&bench_counter,
\* n, NULL) under one of the four state handlers of src/test/common_effects.c;
\* bench_counter is
\*   count = 0; while ((i = state_get()) > 0) { state_set(i-1); count++; } return count;
\* Its frame is the handle frame: loc is count, pc is 0 at the start, 1 once
\* state_get is called, 2 once state_set is called.  The frame of main has n in loc.
CounterKinds == {"TAIL_NOOP", "TAIL", "SCOPED_ONCE", "MULTI"}
CounterN     == stacks[0][1].loc
SetTop(s, f) == [s EXCEPT !.stacks[s.cur][Len(s.stacks[s.cur])] = f]

\* a perform can be made: a MULTI operation needs a resumption record
CanPerform ==
  /\ RunningE /\ TopFrame(St).kind = "handle"
  /\ TopFrame(St).opk = "MULTI" => FreshMres(St) # {}

\* state_handle(&bench_counter, n, NULL)
CounterHandle ==
  /\ RunningE /\ TopFrame(St).kind = "main" /\ HandlerCount = 0
  /\ \E n \in 0..MaxVal, opkind \in CounterKinds :
       LET s == SetTop([St EXCEPT !.last = [Ev("handle") EXCEPT !.e = 1, !.k = opkind]],
                       [TopFrame(St) EXCEPT !.loc = n])
       IN Apply(mpe_handle(s, 1, opkind, n, NULL))

\* i = state_get(), at the start or after count++
CounterGet ==
  /\ CanPerform /\ TopFrame(St).pc \in {0, 2}
  /\ LET f == TopFrame(St)
         s == SetTop([St EXCEPT !.last = [Ev("perform") EXCEPT !.e = 1]],
                     [f EXCEPT !.pc = 1, !.loc = IF f.pc = 2 THEN f.loc + 1 ELSE f.loc])
     IN Apply(mpe_perform(s, 1, NULL))

\* state_get returned i > 0: state_set(i-1)
CounterSet ==
  /\ CanPerform /\ TopFrame(St).pc = 1 /\ last.rv > 0
  /\ LET s == SetTop([St EXCEPT !.last = [Ev("perform") EXCEPT !.e = 1, !.v = last.rv - 1]],
                     [TopFrame(St) EXCEPT !.pc = 2])
     IN Apply(mpe_perform(s, 1, last.rv - 1))

\* state_get returned 0: return count
CounterDone ==
  /\ RunningE /\ TopFrame(St).kind = "handle" /\ TopFrame(St).pc = 1 /\ last.rv = 0
  /\ Apply(mpe_body_return([St EXCEPT !.last = [Ev("body_ret") EXCEPT !.nv = TopFrame(St).loc]],
                           TopFrame(St).loc))

\* the operation function that runs is that of the operation the body is at
CounterOp(pc) ==
  /\ RunningE /\ TopFrame(St).kind \in {"opfun", "yfn"}
  /\ FrameAt(St, TopFrame(St).hloc).pc = pc

\* handle_state_get: return mpe_resume_tail(r, local, local)
CounterOpGet ==
  /\ CounterOp(1)
  /\ LET f == TopFrame(St)
     IN Apply(mpe_resume_tail([St EXCEPT !.last = [Ev("resume_tail") EXCEPT
                                          !.nl = f.local, !.nv = f.local, !.h = f.hloc,
                                          !.k = f.opk]], f.local, f.local))

\* handle_state_set: return mpe_resume_tail(r, arg, NULL)
CounterOpSet ==
  /\ CounterOp(2)
  /\ LET f == TopFrame(St)
     IN Apply(mpe_resume_tail([St EXCEPT !.last = [Ev("resume_tail") EXCEPT
                                          !.nl = f.arg, !.nv = NULL, !.h = f.hloc,
                                          !.k = f.opk]], f.arg, NULL))

NextC ==
  \/ CounterHandle
  \/ CounterGet
  \/ CounterSet
  \/ CounterDone
  \/ CounterOpGet
  \/ CounterOpSet

SpecC == InitE /\ [][NextC]_vars

\* the thread always runs client code
SanityE == status = "ok" => TopFrame(St).kind \in EClientKinds

\* ---- the gstack interface driven by a client ------------------------------------------

MaxFaults == 2
MaxPools == 2     \* an allocation may reserve one more pool

\* the configurations given to mp_init
CfgSmallPool == [mp_config_default EXCEPT !.stack_max_size = 128 * MP_KIB,
                                          !.gpool_max_size = 256 * MP_KIB,
                                          !.stack_cache_count = 1]
CfgMmap      == [mp_config_default EXCEPT !.gpool_enable = FALSE, !.stack_cache_count = 1]
CfgNoCache   == [ZeroConfig EXCEPT !.stack_cache_count = 0 - 1]
ConfigsG     == {<<>>, <<CfgSmallPool>>, <<CfgMmap>>, <<CfgNoCache>>}

\* mp_config_default() with one setting changed, as the tests do, or an empty
\* initializer with some settings assigned
ConfigsI ==
  {<<>>, <<ZeroConfig>>, <<mp_config_default>>, <<CfgSmallPool>>, <<CfgMmap>>, <<CfgNoCache>>}
  \cup {<<[mp_config_default EXCEPT !.stack_cache_count = n]>> : n \in {0, 2}}
  \cup {<<[mp_config_default EXCEPT !.gpool_enable = FALSE, !.stack_grow_fast = b]>> : b \in BOOLEAN}
  \cup {<<[mp_config_default EXCEPT !.stack_use_overcommit = TRUE]>>}
  \cup {<<[ZeroConfig EXCEPT !.gpool_enable = TRUE, !.stack_max_size = n]>> : n \in {0, 1 * MP_MIB + 1}}
  \cup {<<[ZeroConfig EXCEPT !.stack_grow_fast = TRUE, !.stack_gap_size = n,
                             !.stack_initial_commit = 2 * n]>> : n \in {0, 6}}
  \cup {<<[ZeroConfig EXCEPT !.gpool_enable = TRUE, !.gpool_max_size = 1 * MP_GIB,
                             !.stack_exn_guaranteed = n]>> : n \in {0, 16}}

GLive == {"out", "cache", "delayed"}

GEv(op, g, x) ==
  [op |-> op, g |-> g, x |-> x, delayed0 |-> gstk.delayed,
   unwinding |-> cpp /\ gstk.uncaught]

WithEv(s, ev) == IF Ok(s) THEN [s EXCEPT !.gstk.ev = ev] ELSE s

\* the client is running: no write of it is faulting
GRunning == status = "ok" /\ gstk.fault = 0

\* mp_init(config): at most once, before any other function
GInitWith(configs) ==
  /\ GRunning /\ gstk.os_page_size = 0
  /\ \E config \in configs, oc \in BOOLEAN, prevact \in BOOLEAN :
       Apply(WithEv(mp_gstack_init(St, config, oc, prevact), GEv("init", 0, config)))

GInit == GInitWith(ConfigsG)

GInitAny == GInitWith(ConfigsI)

\* what mp_gstack_os_init finds matters when the library is not yet initialized
Unset == IF gstk.os_page_size = 0 THEN BOOLEAN ELSE {FALSE}

GAlloc ==
  /\ GRunning /\ Len(gstk.pools) <= MaxPools
  /\ \E i \in GIdx : gstk.g[i].st \in {"none", "freed"}
  /\ \E extra_size \in ExtraSizes, os \in OsAnswers, oc \in Unset, prevact \in Unset :
       Apply(WithEv(mp_gstack_alloc(St, extra_size, os, oc, prevact), GEv("alloc", 0, extra_size)))

GFree ==
  /\ GRunning /\ gstk.os_page_size # 0
  /\ \E g \in GIdx, delay \in BOOLEAN :
       /\ gstk.g[g].st = "out" /\ g # gstk.current
       /\ Apply(WithEv(mp_gstack_free_delay(St, g, delay), GEv("free", g, delay)))

GClearCache ==
  /\ GRunning /\ gstk.os_page_size # 0
  /\ Apply(WithEv(mp_gstack_clear_cache(St), GEv("clear_cache", 0, 0)))

\* the thread switches to a gstack it holds, or back to the system stack (0)
GSwitch ==
  /\ GRunning
  /\ \E g \in GIdx \cup {0} :
       /\ g # gstk.current
       /\ g # 0 => gstk.g[g].st = "out"
       /\ Apply([St EXCEPT !.gstk.current = g])

\* a host exception is thrown and unwinds; it is caught
GThrow ==
  /\ GRunning /\ cpp /\ ~gstk.uncaught
  /\ Apply([St EXCEPT !.gstk.uncaught = TRUE])

GCaught ==
  /\ GRunning /\ cpp /\ gstk.uncaught
  /\ Apply([St EXCEPT !.gstk.uncaught = FALSE])

\* the addresses at the edges of the gstack g where a write can fault
FaultAddrs(g) ==
  LET r == gstk.g[g] IN
    {r.stack - gstk.os_page_size, r.stack + r.stack_size}
    \cup (IF r.committed < r.stack_size
            THEN {r.stack, r.stack + r.stack_size - r.committed - gstk.os_page_size}
            ELSE {})
    \cup (IF r.committed < r.stack_size \div 2
            THEN {r.stack + mp_align_down(r.stack_size \div 2, gstk.os_page_size)}
            ELSE {})

\* what a fault handler was called with: the address, and what was committed of the
\* current gstack
FaultEv(op, addr) ==
  GEv(op, gstk.current,
      [addr |-> addr,
       committed0 |-> IF gstk.current = 0 THEN 0 ELSE gstk.g[gstk.current].committed])

\* the running code writes to a page that is not accessible
GFault ==
  /\ GRunning /\ gstk.faults < MaxFaults /\ ~gstk.win
  /\ \E g \in GIdx, ok \in BOOLEAN, exits \in BOOLEAN :
       /\ gstk.g[g].st \in GLive
       /\ \E addr \in FaultAddrs(g) :
            Apply(WithEv(PageFault(St, addr, ok, exits), FaultEv("fault", addr)))

\* the handler returned without making the page accessible: the write faults again
GFaultAgain ==
  /\ status = "ok" /\ gstk.fault # 0 /\ gstk.faults < MaxFaults /\ ~gstk.win
  /\ \E ok \in BOOLEAN, exits \in BOOLEAN :
       Apply(WithEv(PageFault(St, gstk.fault, ok, exits), FaultEv("fault", gstk.fault)))

NextG ==
  \/ GInit
  \/ GAlloc
  \/ GFree
  \/ GClearCache
  \/ GSwitch
  \/ GThrow
  \/ GCaught

SpecG == InitE /\ [][NextG]_vars

NextP ==
  \/ GInit
  \/ GAlloc
  \/ GSwitch
  \/ GFault
  \/ GFaultAgain

SpecP == InitE /\ [][NextP]_vars

SpecI == InitE /\ [][GInitAny]_vars

\* the guarantees that SetThreadStackGuarantee reports (KiB)
Guarantees == {0, 6}

\* Windows: the running code writes to a page that is not accessible, or a C++
\* exception is raised and the vectored handler is called first
GFaultWin ==
  /\ GRunning /\ gstk.faults < MaxFaults /\ gstk.win
  /\ \E g \in GIdx, exn \in BOOLEAN, guaranteed \in Guarantees, ok1 \in BOOLEAN, ok2 \in BOOLEAN :
       /\ gstk.g[g].st \in GLive
       /\ exn => cpp
       /\ \E addr \in (IF exn THEN {gstk.g[g].stack} ELSE FaultAddrs(g)) :
            Apply(WithEv(mp_gstack_win_page_fault(St, addr, exn, guaranteed, ok1, ok2),
                         FaultEv(IF exn THEN "exn_win" ELSE "fault_win", addr)))

\* mp_init on Windows (gstk.win): mp_gstack_os_init finds no overcommit setting and no
\* signal handlers there
ConfigsW == {<<>>, <<CfgSmallPool>>}

GInitW ==
  /\ GRunning /\ gstk.os_page_size = 0
  /\ \E config \in ConfigsW :
       Apply(WithEv(mp_gstack_init([St EXCEPT !.gstk.win = TRUE], config, FALSE, FALSE),
                    GEv("init", 0, config)))

\* the process runs on a POSIX system or on Windows
NextW ==
  \/ GInit
  \/ GInitW
  \/ GAlloc
  \/ GSwitch
  \/ GFault
  \/ GFaultAgain
  \/ GFaultWin

SpecW == InitE /\ [][NextW]_vars

\* ---- test/src/rehandle.c ------------------------------------------------------------------
\* reader_handle(&with_exit_handle, init1, NULL) gives the resumption that
\* exit_capture() captured in rehandle_body; reader_handle(&with_resume, init2, r)
\* resumes it under a second reader.

ReaderEff == 1
ExitEff   == 2

\* the mpe_resume_t that an operation function holds, as a value
Resumption(f) == [p |-> f.p, h |-> f.h, opk |-> f.opk, hloc |-> f.hloc]

\* mpe_resume_final(r, local, arg) on a resumption that was passed on as a value
mpe_resume_final_value(s, r, local, arg) ==
  IF Ok(s) /\ DeadResumption(s, r) THEN Undefined(s, "resume: dead resumption") ELSE
  LET s0   == mp_assert(s, r.opk \in {"SCOPED_ONCE", "ONCE", "MULTI"}, "resume:kind>=SCOPED_ONCE")
      renv == Renv(local, arg, FALSE)
      s1   == IF r.opk = "MULTI" THEN mp_mresume(s0, r.h, renv, s0.last)
              ELSE mp_resume(s0, r.p, renv, s0.last)
  IN mpe_perform_yield_to_resumed(s1)

\* test(): void* r = reader_handle(&with_exit_handle, init1, NULL)
RhReader1 ==
  /\ RunningE /\ TopFrame(St).kind = "main" /\ TopFrame(St).pc = 0
  /\ \E init1 \in Vals, init2 \in Vals :
       LET s == SetTop([St EXCEPT !.last = [Ev("handle") EXCEPT !.e = ReaderEff, !.k = "TAIL_NOOP"]],
                       [TopFrame(St) EXCEPT !.pc = 1, !.loc = <<init1, init2>>])
       IN Apply(mpe_handle(s, ReaderEff, "TAIL_NOOP", init1, NULL))

\* the reader_handle that test() is in: 1 runs with_exit_handle, 2 runs with_resume
RhCall == stacks[0][1].pc

\* the body of a reader handler is at pc
RhInReader(pc) ==
  /\ RunningE /\ TopFrame(St).kind = "handle" /\ TopFrame(St).eff = ReaderEff
  /\ TopFrame(St).pc = pc

\* with_exit_handle: return exit_handle(&rehandle_body, arg)
RhExitHandle ==
  /\ RhInReader(0) /\ RhCall = 1
  /\ LET s == SetTop([St EXCEPT !.last = [Ev("handle") EXCEPT !.e = ExitEff, !.k = "ONCE"]],
                     [TopFrame(St) EXCEPT !.pc = 1])
     IN Apply(mpe_handle(s, ExitEff, "ONCE", NULL, NULL))

\* rehandle_body: long x = reader_ask(), and after exit_capture(): long y = reader_ask()
RhAsk ==
  /\ RunningE /\ TopFrame(St).kind = "handle" /\ TopFrame(St).eff = ExitEff
  /\ TopFrame(St).pc \in {0, 2}
  /\ LET s == SetTop([St EXCEPT !.last = [Ev("perform") EXCEPT !.e = ReaderEff]],
                     [TopFrame(St) EXCEPT !.pc = @ + 1])
     IN Apply(mpe_perform(s, ReaderEff, NULL))

\* handle_reader_ask: return mpe_resume_tail(r, local, local)
RhOpAsk ==
  /\ RunningE /\ TopFrame(St).kind = "opfun"
  /\ LET f == TopFrame(St)
     IN Apply(mpe_resume_tail([St EXCEPT !.last = [Ev("resume_tail") EXCEPT
                                          !.nl = f.local, !.nv = f.local, !.h = f.hloc,
                                          !.k = f.opk]], f.local, f.local))

\* rehandle_body: exit_capture(), with x kept
RhCapture ==
  /\ RunningE /\ TopFrame(St).kind = "handle" /\ TopFrame(St).eff = ExitEff
  /\ TopFrame(St).pc = 1
  /\ LET s == SetTop([St EXCEPT !.last = [Ev("perform") EXCEPT !.e = ExitEff]],
                     [TopFrame(St) EXCEPT !.pc = 2, !.loc = last.rv])
     IN Apply(mpe_perform(s, ExitEff, NULL))

\* op_exit_capture: return r
RhOpCapture ==
  /\ RunningE /\ TopFrame(St).kind = "yfn"
  /\ Apply(yfn_return([St EXCEPT !.last = [Ev("opfun_ret") EXCEPT !.h = TopFrame(St).hloc,
                                                                  !.k = TopFrame(St).opk]],
                      Resumption(TopFrame(St))))

\* with_exit_handle and with_resume return what exit_handle and mpe_resume_final gave
RhReaderReturn ==
  /\ RhInReader(1)
  /\ Apply(mpe_body_return([St EXCEPT !.last = Ev("body_ret")], last.rv))

\* test(): res = reader_handle(&with_resume, init2, r)
RhReader2 ==
  /\ RunningE /\ TopFrame(St).kind = "main" /\ TopFrame(St).pc = 1
  /\ LET f == TopFrame(St)
         s == SetTop([St EXCEPT !.last = [Ev("handle") EXCEPT !.e = ReaderEff, !.k = "TAIL_NOOP"]],
                     [f EXCEPT !.pc = 2])
     IN Apply(mpe_handle(s, ReaderEff, "TAIL_NOOP", f.loc[2], last.rv))

\* with_resume: return mpe_resume_final(r, NULL, NULL)
RhResume ==
  /\ RhInReader(0) /\ RhCall = 2
  /\ LET s == SetTop([St EXCEPT !.last = Ev("resume")], [TopFrame(St) EXCEPT !.pc = 1])
     IN Apply(mpe_resume_final_value(s, TopFrame(St).arg, NULL, NULL))

\* rehandle_body: return x + y
RhBodyReturn ==
  /\ RunningE /\ TopFrame(St).kind = "handle" /\ TopFrame(St).eff = ExitEff
  /\ TopFrame(St).pc = 3
  /\ Apply(mpe_body_return([St EXCEPT !.last = Ev("body_ret")], TopFrame(St).loc + last.rv))

\* test(): res is assigned
RhDone ==
  /\ RunningE /\ TopFrame(St).kind = "main" /\ TopFrame(St).pc = 2
  /\ Apply(SetTop(St, [TopFrame(St) EXCEPT !.pc = 3, !.res = last.rv]))

NextR ==
  \/ RhReader1
  \/ RhExitHandle
  \/ RhAsk
  \/ RhOpAsk
  \/ RhCapture
  \/ RhOpCapture
  \/ RhReaderReturn
  \/ RhReader2
  \/ RhResume
  \/ RhBodyReturn
  \/ RhDone

SpecR == InitE /\ [][NextR]_vars

\* ---- test/src/amb_state.c -----------------------------------------------------------------
\* test() calls amb_state(), the amb handler around the state handler around foo, and
\* then state_amb(), the state handler around the amb handler around foo.  Booleans
\* are 0 and 1, a blist is a sequence.

StateEff == 1
AmbEff   == 2

blist_single(val)     == <<val>>
blist_appendto(xs, ys) == xs \o ys
blist_length(xs)      == Len(xs)

\* return(x){ [x] }
handle_amb_result(local, arg) == blist_single(arg)

\* the end of mpe_handle_start: the body of the handle frame on top returned `result`;
\* hdef->resultfun is handle_amb_result in amb_def and NULL in state_hdef
mpe_handle_start_return(s, result) ==
  LET h == TopFrame(s)
  IN mpe_body_return(s, IF h.eff = AmbEff THEN handle_amb_result(h.local, result) ELSE result)

\* the call test() is in: 1 amb_state(), 2 state_amb()
AsCall == stacks[0][1].pc
AsOuterEff == IF AsCall = 1 THEN AmbEff ELSE StateEff
AsInnerEff == IF AsCall = 1 THEN StateEff ELSE AmbEff

\* state_handle(action, init, arg) and amb_handle(action, arg)
AsHandle(s, eff, arg) ==
  IF eff = StateEff
    THEN mpe_handle([s EXCEPT !.last = [Ev("handle") EXCEPT !.e = StateEff, !.k = "TAIL_NOOP"]],
                    StateEff, "TAIL_NOOP", 0, arg)
    ELSE mpe_handle([s EXCEPT !.last = [Ev("handle") EXCEPT !.e = AmbEff, !.k = "MULTI"]],
                    AmbEff, "MULTI", NULL, arg)

\* the body of a handler runs: hstate or hamb (outer), foo (inner)
AsInBody(eff, pc) ==
  /\ RunningE /\ TopFrame(St).kind = "handle" /\ TopFrame(St).eff = eff
  /\ TopFrame(St).pc = pc

\* test(): xs = amb_state()
AsAmbState ==
  /\ RunningE /\ TopFrame(St).kind = "main" /\ TopFrame(St).pc = 0
  /\ Apply(AsHandle(SetTop(St, [TopFrame(St) EXCEPT !.pc = 1]), AmbEff, NULL))

\* test(): xs = state_amb(), with the list of amb_state() kept
AsStateAmb ==
  /\ RunningE /\ TopFrame(St).kind = "main" /\ TopFrame(St).pc = 1
  /\ Apply(AsHandle(SetTop(St, [TopFrame(St) EXCEPT !.pc = 2, !.res = last.rv]), StateEff, NULL))

\* test(): state_amb() has returned
AsDone ==
  /\ RunningE /\ TopFrame(St).kind = "main" /\ TopFrame(St).pc = 2
  /\ Apply(SetTop(St, [TopFrame(St) EXCEPT !.pc = 3, !.loc = last.rv]))

\* hstate: return state_handle(&foo, 0, arg); hamb: return amb_handle(&foo, arg)
AsInner ==
  /\ AsInBody(AsOuterEff, 0)
  /\ Apply(AsHandle(SetTop(St, [TopFrame(St) EXCEPT !.pc = 1]), AsInnerEff, TopFrame(St).arg))

\* hstate, hamb: the inner handler has returned
AsOuterReturn ==
  /\ AsInBody(AsOuterEff, 1)
  /\ Apply(mpe_handle_start_return([St EXCEPT !.last = Ev("body_ret")], last.rv))

\* foo: bool p = amb_flip()
AsFooFlip ==
  /\ AsInBody(AsInnerEff, 0)
  /\ LET s == SetTop([St EXCEPT !.last = [Ev("perform") EXCEPT !.e = AmbEff]],
                     [TopFrame(St) EXCEPT !.pc = 1])
     IN Apply(mpe_perform(s, AmbEff, NULL))

\* foo: long i = state_get()
AsFooGet ==
  /\ AsInBody(AsInnerEff, 1)
  /\ LET s == SetTop([St EXCEPT !.last = [Ev("perform") EXCEPT !.e = StateEff]],
                     [TopFrame(St) EXCEPT !.pc = 2, !.loc = [p |-> last.rv, i |-> 0, x |-> 0]])
     IN Apply(mpe_perform(s, StateEff, NULL))

\* foo: state_set(i + 1)
AsFooSet ==
  /\ AsInBody(AsInnerEff, 2)
  /\ LET s == SetTop([St EXCEPT !.last = [Ev("perform") EXCEPT !.e = StateEff]],
                     [TopFrame(St) EXCEPT !.pc = 3, !.loc.i = last.rv])
     IN Apply(mpe_perform(s, StateEff, last.rv + 1))

\* the operation function of the state handler runs in place, above the frame of foo
AsInStateOp(pc) ==
  /\ RunningE /\ TopFrame(St).kind = "opfun"
  /\ stacks[cur][Len(stacks[cur]) - 1].pc = pc

\* handle_state_get: return mpe_resume_tail(r, local, local)
AsOpGet ==
  /\ AsInStateOp(2)
  /\ LET f == TopFrame(St)
     IN Apply(mpe_resume_tail([St EXCEPT !.last = [Ev("resume_tail") EXCEPT
                                          !.nl = f.local, !.nv = f.local, !.h = f.hloc,
                                          !.k = f.opk]], f.local, f.local))

\* handle_state_set: return mpe_resume_tail(r, arg, NULL)
AsOpSet ==
  /\ AsInStateOp(3)
  /\ LET f == TopFrame(St)
     IN Apply(mpe_resume_tail([St EXCEPT !.last = [Ev("resume_tail") EXCEPT
                                          !.nl = f.arg, !.nv = NULL, !.h = f.hloc,
                                          !.k = f.opk]], f.arg, NULL))

\* foo: i > 0 && p
AsFooCond == TopFrame(St).loc.i > 0 /\ TopFrame(St).loc.p = 1

\* foo: b = false; return b
AsFooFalse ==
  /\ AsInBody(AsInnerEff, 3) /\ ~AsFooCond
  /\ Apply(mpe_handle_start_return([St EXCEPT !.last = Ev("body_ret")], 0))

\* xxor: bool x = amb_flip()
AsXorX ==
  /\ AsInBody(AsInnerEff, 3) /\ AsFooCond
  /\ LET s == SetTop([St EXCEPT !.last = [Ev("perform") EXCEPT !.e = AmbEff]],
                     [TopFrame(St) EXCEPT !.pc = 4])
     IN Apply(mpe_perform(s, AmbEff, NULL))

\* xxor: bool y = amb_flip()
AsXorY ==
  /\ AsInBody(AsInnerEff, 4)
  /\ LET s == SetTop([St EXCEPT !.last = [Ev("perform") EXCEPT !.e = AmbEff]],
                     [TopFrame(St) EXCEPT !.pc = 5, !.loc.x = last.rv])
     IN Apply(mpe_perform(s, AmbEff, NULL))

\* xxor: return ((x && !y) || (!x && y)), and foo returns it
AsFooXor ==
  /\ AsInBody(AsInnerEff, 5)
  /\ LET x == TopFrame(St).loc.x = 1
         y == last.rv = 1
     IN Apply(mpe_handle_start_return([St EXCEPT !.last = Ev("body_ret")],
                                      IF (x /\ ~y) \/ (~x /\ y) THEN 1 ELSE 0))

\* handle_amb_flip is at pc
AsInFlip(pc) == RunningE /\ TopFrame(St).kind = "yfn" /\ TopFrame(St).pc = pc

\* handle_amb_flip: blist xs = mpe_resume(rc, local, false)
AsFlipFalse ==
  /\ AsInFlip(0)
  /\ LET s == SetTop([St EXCEPT !.last = Ev("resume")], [TopFrame(St) EXCEPT !.pc = 1])
     IN Apply(mpe_resume(s, TopFrame(St).local, 0))

\* handle_amb_flip: blist ys = mpe_resume_final(rc, local, true)
AsFlipTrue ==
  /\ AsInFlip(1)
  /\ LET s == SetTop([St EXCEPT !.last = Ev("resume")],
                     [TopFrame(St) EXCEPT !.pc = 2, !.loc = last.rv])
     IN Apply(mpe_resume_final(s, TopFrame(St).local, 1))

\* handle_amb_flip: return blist_appendto(xs, ys)
AsFlipReturn ==
  /\ AsInFlip(2)
  /\ Apply(yfn_return([St EXCEPT !.last = [Ev("opfun_ret") EXCEPT !.h = TopFrame(St).hloc,
                                                                  !.k = TopFrame(St).opk]],
                      blist_appendto(TopFrame(St).loc, last.rv)))

NextA ==
  \/ AsAmbState
  \/ AsStateAmb
  \/ AsDone
  \/ AsInner
  \/ AsOuterReturn
  \/ AsFooFlip
  \/ AsFooGet
  \/ AsFooSet
  \/ AsOpGet
  \/ AsOpSet
  \/ AsFooFalse
  \/ AsXorX
  \/ AsXorY
  \/ AsFooXor
  \/ AsFlipFalse
  \/ AsFlipTrue
  \/ AsFlipReturn

SpecA == InitE /\ [][NextA]_vars

\* ---- properties ------------------------------------------------------------------------

\* the states of a prompt (section 3 of the specification)
IsActive(p)    == Live(p) /\ prompts[p].top = NULL /\ InSeq(p, Chain(St))
IsSuspended(p) ==
  /\ Live(p) /\ prompts[p].top # NULL
  /\ LivePt(St, prompts[p].resume_point, "yield")
  /\ prompts[p].resume_point[1] = prompts[p].top
  /\ LET ch == ChainFrom(St, prompts[p].top) IN ch # <<>> /\ ch[Len(ch)] = p
IsDead(p)      == gs[p].freed > 0
\* the suspended prompts whose captured chain holds p
Holders(p)     == {q \in PIds : /\ q # p /\ Live(q) /\ prompts[q].top # NULL
                                /\ InSeq(p, ChainFrom(St, prompts[q].top))}
\* top link NULL, but part of the chain captured under a suspended prompt
IsCaptured(p)  == Live(p) /\ prompts[p].top = NULL /\ ~InSeq(p, Chain(St)) /\ Holders(p) # {}
Entered(p)     == gs[p].st = "entered"
Truths(S)      == Cardinality({b \in S : b[2]})

\* C1: a yield whose function immediately resumes the resumption with its own
\* argument returns that argument to the yielding code, and the chain of prompts is
\* afterwards what it was before the yield
T_C1 ==
  (status = "ok" /\ last.op = "resume" /\ last.flag)
     => (last.rv = last.v /\ last.chain1 = last.chain0 /\ last.tp1 = last.tp0)

\* the yield went from a nested prompt to its parent and returned the value 2
W_C1 ==
  /\ status = "ok" /\ last.op = "resume" /\ last.flag
  /\ Len(last.chain0) = 2 /\ last.p = last.chain0[2] /\ last.rv = 2

\* C2: mp_prompt returns the value its start function returned, and the top prompt
\* is then the prompt that was the top when mp_prompt was called
T_C2 ==
  (status = "ok" /\ last.op = "prompt_ret" /\ last.flag)
     => (last.rv = last.v /\ last.tp1 = last.tp0)

\* a prompt entered inside another prompt has returned 2
W_C2 ==
  /\ status = "ok" /\ last.op = "prompt_ret" /\ last.flag
  /\ last.tp0 # NULL /\ last.rv = 2

\* C3 (as the specification states it): every resume of a multi-shot resumption that
\* the client may make continues from the stacks as they were at the yield
CE_C3 ==
  (last.op = "mresume" /\ ~last.act0) => (status = "ok" /\ last.flag)

\* a resumption that the client still holds is resumed, and does not continue from
\* the stacks of its yield
W_C3 ==
  last.op = "mresume" /\ ~last.act0 /\ ~last.flag

\* C4 (as the specification states it): every entered prompt is in exactly one of
\* the states Active, Suspended, Dead
CE_C4 ==
  status = "ok" =>
    \A p \in PIds : Entered(p) =>
       Truths({<<"a", IsActive(p)>>, <<"s", IsSuspended(p)>>, <<"d", IsDead(p)>>}) = 1

\* C4: every entered prompt is in exactly one of the states Active, Captured (top
\* link NULL, part of the chain captured under a suspended prompt and not of the
\* executing chain), Suspended, Dead
T_C4 ==
  status = "ok" =>
    \A p \in PIds : Entered(p) =>
       Truths({<<"a", IsActive(p)>>, <<"c", IsCaptured(p)>>,
               <<"s", IsSuspended(p)>>, <<"d", IsDead(p)>>}) = 1

\* one prompt is suspended and another is captured under it
W_C4 ==
  /\ status = "ok"
  /\ \E p, q \in PIds : IsSuspended(q) /\ IsCaptured(p) /\ q \in Holders(p)

\* C5 (as the specification states it): every prompt whose top link is NULL is
\* reached exactly once from the thread's top prompt
CE_C5 ==
  status = "ok" =>
    \A p \in PIds : (Live(p) /\ prompts[p].top = NULL) => Count(p, Chain(St)) = 1

\* C5: every prompt whose top link is NULL is reached exactly once, either from the
\* thread's top prompt or from the top link of exactly one suspended prompt
T_C5 ==
  status = "ok" =>
    \A p \in PIds : (Live(p) /\ prompts[p].top = NULL) =>
       \/ Count(p, Chain(St)) = 1 /\ Holders(p) = {}
       \/ /\ Count(p, Chain(St)) = 0
          /\ Cardinality(Holders(p)) = 1
          /\ \A q \in Holders(p) : Count(p, ChainFrom(St, prompts[q].top)) = 1

\* two prompts are active, one inside the other
W_C5 ==
  /\ status = "ok" /\ Len(Chain(St)) = 2
  /\ \A i \in 1..2 : Live(Chain(St)[i]) /\ prompts[Chain(St)[i]].top = NULL

\* C6: the walk from the top link of a suspended prompt ends at the prompt itself,
\* meets no prompt twice, and meets no prompt of the executing chain
T_C6 ==
  status = "ok" =>
    \A p \in PIds : (Live(p) /\ prompts[p].top # NULL) =>
       LET ch == ChainFrom(St, prompts[p].top) IN
       /\ ch # <<>> /\ ch[Len(ch)] = p
       /\ \A i, j \in 1..Len(ch) : ch[i] = ch[j] => i = j
       /\ \A i \in 1..Len(ch) : ~InSeq(ch[i], Chain(St))

\* a suspended prompt holds a chain of two prompts
W_C6 ==
  /\ status = "ok"
  /\ \E p \in PIds : Live(p) /\ prompts[p].top # NULL /\ Entered(p)
                     /\ Len(ChainFrom(St, prompts[p].top)) = 2

\* C7 (as the specification states it): when the drop of a suspended prompt brings
\* its reference count to zero, the prompt and every prompt of its captured chain
\* have their stack released exactly once; while the count is at least 1 none is
CE_C7 ==
  /\ last.op = "drop" =>
       \A i \in 1..Len(last.chain0) : gs[last.chain0[i]].freed = 1
  /\ \A p \in PIds :
       (Live(p) /\ prompts[p].top # NULL /\ prompts[p].refcount >= 1) =>
          \A i \in 1..Len(CapturedChain(St, p)) : gs[CapturedChain(St, p)[i]].freed = 0

\* the drop of a suspended prompt that holds a chain of two prompts stopped at the
\* assertion in mp_prompt_free with no stack released
W_C7 ==
  /\ last.op = "drop" /\ status = "assert" /\ failed = "free:refcount==0"
  /\ Len(last.chain0) = 2 /\ \A i \in 1..2 : gs[last.chain0[i]].freed = 0

\* the chain of prompts before the call recorded in `last`
Chain0 == Walk(last.prm0[1], last.prm0[2], MaxPrompts + 1)

\* C8 (as the specification states it): with assertions on, a yield is accepted
\* only when its target is active and a strict ancestor of the top prompt; any
\* other yield trips an assertion before a prompt is unlinked
CE_C8 ==
  (debug /\ last.op = "yield") =>
     LET p      == last.p
         strict == /\ last.prm0[1][p].top = NULL
                   /\ InSeq(p, Chain0) /\ p # last.prm0[2]
     IN IF strict THEN status = "ok"
        ELSE status = "assert" /\ prompts = last.prm0[1] /\ top = last.prm0[2]

\* C8: with assertions on, a yield is accepted exactly when its target is active
\* and is the top prompt or an ancestor of it; any other yield trips an assertion
\* before a prompt is unlinked
T_C8 ==
  (debug /\ last.op = "yield") =>
     LET p        == last.p
         accepted == last.prm0[1][p].top = NULL /\ InSeq(p, Chain0)
     IN IF accepted THEN status = "ok" /\ prompts[p].top # NULL
        ELSE status = "assert" /\ prompts = last.prm0[1] /\ top = last.prm0[2]

\* a yield to a prompt whose top link is NULL but that is captured under a suspended
\* prompt was stopped by the ancestor assertion
W_C8 ==
  /\ debug /\ last.op = "yield" /\ status = "assert" /\ failed = "yield:ancestor"
  /\ last.prm0[1][last.p].top = NULL

\* C9 (as the specification states it): with assertions on, every resume of a
\* one-shot resumption that was resumed before trips an assertion
CE_C9 ==
  (debug /\ last.op = "stale_resume") => status = "assert"

\* a resumption that was resumed before is resumed again after its prompt yielded
\* again, and the resume goes through
W_C9 ==
  debug /\ last.op = "stale_resume" /\ status = "ok" /\ ~last.act0

HandlersIn(fl, e) ==
  SelectSeq(fl, LAMBDA f : FrameAt(St, f).kind = "handle" /\ FrameAt(St, f).eff = e)
MasksIn(fl, e) ==
  SelectSeq(fl, LAMBDA f : FrameAt(St, f).kind = "mask" /\ FrameAt(St, f).eff = e)
UndersIn(fl) == SelectSeq(fl, LAMBDA f : FrameAt(St, f).kind = "under")
IndexOf(fl, f) == CHOOSE i \in 1..Len(fl) : fl[i] = f
FirstOr(sq) == IF sq = <<>> THEN NoPt ELSE sq[1]

\* the handlers of fl without the nearest handler of e that encloses the frame m
WithoutNearest(fl, e, m) ==
  LET H      == HandlersIn(fl, e)
      hidden == FirstOr(SelectSeq(H, LAMBDA h : IndexOf(fl, h) > IndexOf(fl, m)))
  IN SelectSeq(H, LAMBDA h : h # hidden)

\* the operation performed last was performed outside of operation functions
PerformedInBody ==
  status = "ok" /\ last.op = "perform" /\ UndersIn(last.fl0) = <<>>

\* C14: an operation of eff performed in the body of mpe_mask(eff, 0, body) (the only
\* mask of eff in scope) goes to the innermost handler of eff once the nearest
\* handler of eff that encloses the mask frame is left out, and is unhandled when no
\* handler is left; an operation of an effect that no frame in scope masks goes to
\* the innermost handler of its effect, whatever mask frames of other effects are in
\* scope
T_C14 ==
  PerformedInBody =>
     LET fl == last.fl0
         M  == MasksIn(fl, last.e)
     IN /\ (Len(M) = 1 /\ FrameAt(St, M[1]).from = 0) =>
             last.h = FirstOr(WithoutNearest(fl, last.e, M[1]))
        /\ M = <<>> => last.h = FirstOr(HandlersIn(fl, last.e))

\* an operation of eff was performed directly in the body of mpe_mask(eff, 0, body)
\* inside two handlers of eff, and it went to the outer one
W_C14 ==
  /\ PerformedInBody
  /\ LET fl == last.fl0
         H  == HandlersIn(fl, last.e)
     IN /\ Len(fl) = 3 /\ Len(H) = 2
        /\ FrameAt(St, fl[1]).kind = "mask" /\ FrameAt(St, fl[1]).eff = last.e
        /\ FrameAt(St, fl[1]).from = 0
        /\ last.h = H[2]

\* the handler an operation of e goes to when the frames i.. of fl are still to be
\* passed and `hidden` handlers of e are to be passed over: a mask frame of e adds
\* one to hidden when its from is at most hidden
RECURSIVE Visible(_, _, _, _)
Visible(fl, i, e, hidden) ==
  IF i > Len(fl) THEN NoPt
  ELSE LET fr == FrameAt(St, fl[i]) IN
       IF fr.kind = "handle" /\ fr.eff = e
         THEN IF hidden = 0 THEN fl[i] ELSE Visible(fl, i + 1, e, hidden - 1)
       ELSE IF fr.kind = "mask" /\ fr.eff = e /\ fr.from <= hidden
         THEN Visible(fl, i + 1, e, hidden + 1)
       ELSE Visible(fl, i + 1, e, hidden)

\* the operation was performed directly in the body of the only mask of its effect
PerformedInMask ==
  /\ PerformedInBody
  /\ Len(MasksIn(last.fl0, last.e)) = 1
  /\ MasksIn(last.fl0, last.e)[1] = last.fl0[1]

\* C15 (as the specification states it): an operation of effect performed in the body
\* of mask(effect, from) is dispatched past exactly `from` enclosing handlers of effect
CE_C15 ==
  PerformedInMask =>
     LET H    == HandlersIn(last.fl0, last.e)
         from == FrameAt(St, last.fl0[1]).from
     IN last.h = IF Len(H) > from THEN H[from + 1] ELSE NoPt

\* C15: a mask frame of effect hides one handler of effect, the nearest enclosing one
\* that is not hidden already, when its `from` is at most the number of handlers that
\* the masks inside it have hidden and that are still to be passed, and hides nothing
\* otherwise.  With no other mask of effect in scope: mask(effect, 0) hides one
\* handler and mask(effect, from) with from >= 1 hides none.
T_C15 ==
  PerformedInBody =>
     LET fl == last.fl0
         M  == MasksIn(fl, last.e)
     IN /\ last.h = Visible(fl, 1, last.e, 0)
        /\ (Len(M) = 1 /\ FrameAt(St, M[1]).from >= 1) =>
             last.h = FirstOr(HandlersIn(fl, last.e))
        /\ (Len(M) = 1 /\ FrameAt(St, M[1]).from = 0) =>
             last.h = FirstOr(WithoutNearest(fl, last.e, M[1]))

\* an operation of effect was performed in mask(effect, 0) inside mask(effect, 1)
\* inside two handlers of effect: both masks hide a handler and it is unhandled
W_C15 ==
  /\ PerformedInBody
  /\ LET fl == last.fl0
     IN /\ Len(fl) = 4 /\ Len(HandlersIn(fl, last.e)) = 2
        /\ FrameAt(St, fl[1]).kind = "mask" /\ FrameAt(St, fl[1]).eff = last.e
        /\ FrameAt(St, fl[1]).from = 0
        /\ FrameAt(St, fl[2]).kind = "mask" /\ FrameAt(St, fl[2]).eff = last.e
        /\ FrameAt(St, fl[2]).from = 1
        /\ last.h = NoPt

\* the frames of operation functions of TAIL operations that were running when the
\* operation in `last` was performed (all but the one the perform has just started)
RunningTail ==
  {f \in UNION {{<<g, i>> : i \in 1..Len(stacks[g])} : g \in GIds} :
     /\ FrameAt(St, f).kind = "opfun" /\ FrameAt(St, f).opk = "TAIL"
     /\ ~(last.h # NoPt /\ f = <<cur, Len(stacks[cur])>>)}

\* the operation in `last` was performed by the operation function of a TAIL operation
\* whose `under` frame is the only one in scope
PerformedInTail ==
  /\ status = "ok" /\ last.op = "perform"
  /\ Len(UndersIn(last.fl0)) = 1 /\ UndersIn(last.fl0)[1] = last.fl0[1]

\* C16: an operation performed while operation functions of TAIL operations are
\* running is dispatched to none of the handlers they belong to; performed by the
\* operation function of handler h, it goes to the handler that is visible from the
\* frame that encloses h
CE_C16 ==
  /\ (status = "ok" /\ last.op = "perform") =>
        \A f \in RunningTail : FrameAt(St, f).hloc # last.h
  /\ PerformedInTail =>
        \A f \in RunningTail :
           last.h = Visible(last.fl0, IndexOf(last.fl0, FrameAt(St, f).hloc) + 1, last.e, 0)

\* the operation function of a TAIL operation performed an operation of its own
\* effect, and it was dispatched to the handler whose operation function is running
W_C16 ==
  /\ status = "ok" /\ last.op = "perform"
  /\ \E f \in RunningTail : FrameAt(St, f).hloc = last.h /\ FrameAt(St, last.h).eff = last.e

\* C17: a perform dispatched to a handler of a TAIL_NOOP operation starts the operation
\* function on the stack of the performer with the handler's local, and leaves the
\* prompt chain and the shadow stack as they are; when the operation function ends
\* with mpe_resume_tail(r, l, v) the perform returns v on that stack, the handler's
\* local is l, the prompt chain and the shadow stack are what they were before the
\* perform, and no yield has been made
T_C17 ==
  /\ (status = "ok" /\ last.op = "perform" /\ last.h # NoPt
        /\ FrameAt(St, last.h).opk = "TAIL_NOOP") =>
        /\ TopFrame(St).kind = "opfun" /\ TopFrame(St).local = FrameAt(St, last.h).local
        /\ cur = last.g0 /\ top = last.tp0 /\ Chain(St) = last.chain0
        /\ FrameList(St) = last.fl0
        /\ hist.yields = 0
  /\ (status = "ok" /\ last.op = "resume_tail" /\ last.k = "TAIL_NOOP") =>
        /\ last.rv = last.nv
        /\ FrameAt(St, last.h).local = last.nl
        /\ cur = last.g0 /\ last.tp1 = last.tp0 /\ last.chain1 = last.chain0
        /\ top = last.tp1 /\ Chain(St) = last.chain1
        /\ last.fl1 = last.fl0 /\ FrameList(St) = last.fl1
        /\ hist.yields = 0

\* the function of a TAIL_NOOP operation performed under a mask frame ended with
\* mpe_resume_tail(r, 2, 1): the handler's local went from 1 to 2
W_C17 ==
  /\ status = "ok" /\ last.op = "resume_tail" /\ last.k = "TAIL_NOOP"
  /\ last.nl = 2 /\ last.rv = 1 /\ FrameAt(St, last.h).local = 2
  /\ Len(last.fl0) >= 2 /\ last.fl0[1] # last.h

\* x is one of the things the operation in `last` did
Did(x) == \E i \in 1..Len(last.tr) : last.tr[i] = x

\* the operation in `last` is a resume of the resumption of a yielding operation
Resumed ==
  /\ status = "ok" /\ last.op \in {"resume", "resume_final", "resume_tail"}
  /\ last.k \in {"SCOPED_ONCE", "ONCE", "MULTI"}

\* C19: after mpe_resume, mpe_resume_final or mpe_resume_tail (r, new_local, v) on the
\* resumption of a yielding operation the perform that was resumed has returned v and
\* the local of the handler frame that r belongs to is new_local; and the operation
\* function that a perform starts on a handler receives the local of its handler frame
T_C19 ==
  /\ Resumed =>
        /\ Did(<<"resumed", last.h>>)
        /\ last.rv = last.nv
        /\ FrameAt(St, last.h).kind = "handle" /\ FrameAt(St, last.h).local = last.nl
  /\ (status = "ok" /\ last.op = "perform" /\ Did(<<"opfun", last.h>>)
        /\ TopFrame(St).opk \in {"SCOPED_ONCE", "ONCE", "MULTI"}) =>
        /\ TopFrame(St).kind = "yfn" /\ TopFrame(St).hloc = last.h
        /\ TopFrame(St).local = FrameAt(St, last.h).local

\* after a resume with new_local = 2 of an operation of a handler installed with local
\* 1, the next operation performed on that handler started its function with local 2
W_C19 ==
  /\ status = "ok" /\ last.op = "perform" /\ Did(<<"opfun", last.h>>)
  /\ TopFrame(St).kind = "yfn" /\ TopFrame(St).hloc = last.h
  /\ TopFrame(St).opk \in {"SCOPED_ONCE", "ONCE", "MULTI"}
  /\ TopFrame(St).local = 2

\* no resumption is a multi-shot one, whose resumes run a body more than once
OneShot == \A r \in MIds : mres[r].alloc = "none"

\* the operation in `last` was a perform of an operation of kind ABORT, which is
\* documented to run no finalizers
AbortPerformed ==
  /\ last.op = "perform" /\ TopFrame(St).kind = "yfn" /\ TopFrame(St).rk = "null"
  /\ TopFrame(St).opk = "ABORT"

\* C13: the release function of an mpe_finally is never called twice, and when an
\* operation has ended the body (the frame is gone from the stacks) it has been called
\* once
CE_C13 ==
  (status = "ok" /\ OneShot /\ ~AbortPerformed) =>
     \A fid \in 1..MaxFinally :
        /\ rel[fid] <= 1
        /\ (fid \in last.fin0 /\ fid \notin FinallyLive(St)) => rel[fid] = 1

\* compiled as C, an operation of kind NEVER was performed in the body of an
\* mpe_finally: its operation function runs, the frame is gone with the stack it was
\* on, and the release function was not called
W_C13 ==
  /\ ~cpp /\ status = "ok" /\ last.op = "perform"
  /\ TopFrame(St).kind = "yfn" /\ TopFrame(St).rk = "null" /\ TopFrame(St).opk = "NEVER"
  /\ \E fid \in last.fin0 : fid \notin FinallyLive(St) /\ rel[fid] = 0

\* x is done before y in the operation in `last` (y is done)
Before(x, y) ==
  \E j \in 1..Len(last.tr) : last.tr[j] = y /\ \E i \in 1..(j - 1) : last.tr[i] = x

\* the operation in `last` was a perform of an operation of kind NEVER, whose
\* operation function is running
NeverPerformed ==
  /\ status = "ok" /\ last.op = "perform" /\ last.h # NoPt
  /\ TopFrame(St).kind = "yfn" /\ TopFrame(St).opk = "NEVER"

\* C20: when the operation function of a NEVER operation starts, its resumption is
\* NULL, the release function of every mpe_finally frame between the perform site and
\* the handler has been called, no frame of the unwound stack is left on the shadow
\* stack, and the function runs directly in the call of mpe_handle, right above the
\* frame that entered the handler's prompt; when it returns v, v is what is returned there
CE_C20 ==
  /\ NeverPerformed =>
        /\ TopFrame(St).rk = "null" /\ Did(<<"opfun", last.h>>)
        /\ \A fid \in last.fb : rel[fid] = 1 /\ Before(<<"release", fid>>, <<"opfun", last.h>>)
        /\ mpe_frame_top = NoPt \/ LiveFrame(St, mpe_frame_top)
        /\ LET n == Len(stacks[cur])
           IN stacks[cur][n - 1].kind = "resume" /\ stacks[cur][n - 1].init
              /\ stacks[cur][n - 1].p = last.h[1]
  /\ (status = "ok" /\ last.op = "opfun_ret" /\ last.k = "NEVER") => last.rv = last.nv

\* compiled as C, an operation of kind NEVER performed inside an mpe_finally inside
\* the handler started its operation function without any release function called
W_C20 ==
  /\ NeverPerformed /\ ~cpp
  /\ last.fb # {} /\ \A fid \in last.fb : ~Did(<<"release", fid>>)
  /\ LiveFrame(St, mpe_frame_top) = FALSE /\ mpe_frame_top # NoPt

\* the operation in `last` is mpe_resume_release of a multi-shot resumption that
\* completed; last.flag: it held the last reference and was never resumed
MultiReleased ==
  status = "ok" /\ last.op = "release" /\ last.k = "MULTI"

\* C11: when mpe_resume_release of the last reference to a multi-shot resumption that
\* was never resumed returns to the operation function, it has called the release
\* function of every mpe_finally frame of the captured computation once and the frames
\* are gone; the result of the operation function is then returned from mpe_handle.
\* A release of a resumption that was resumed before, or that has other references,
\* calls no release function and resumes nothing: it takes one from the reference
\* count, and frees the resumption when the count gets to 0.
CE_C11 ==
  /\ (MultiReleased /\ last.flag) =>
        /\ TopFrame(St).kind = "yfn" /\ TopFrame(St).hloc = last.h
        /\ \A fid \in last.fb :
              /\ Cardinality({i \in 1..Len(last.tr) : last.tr[i] = <<"release", fid>>}) = 1
              /\ fid \notin FinallyLive(St)
        /\ mres[TopFrame(St).h].alloc = "freed"
  /\ (MultiReleased /\ ~last.flag) =>
        /\ last.tr = <<<<"mdrop", TopFrame(St).h>>>>
        /\ IF last.v > 1 THEN mres[TopFrame(St).h].refcount = last.v - 1
           ELSE mres[TopFrame(St).h].alloc = "freed"
  /\ (status = "ok" /\ last.op = "opfun_ret" /\ last.k = "MULTI") => last.rv = last.nv

\* compiled as C, the only reference to a multi-shot resumption that was never resumed
\* and whose computation is inside an mpe_finally was released, and the release
\* function has not been called
W_C11 ==
  /\ MultiReleased /\ last.flag /\ ~cpp
  /\ \E fid \in last.fb : ~Did(<<"release", fid>>)

\* the parent of prompt p in a chain (innermost prompt first), NULL at the end
ParentIn(chain, p) ==
  LET i == CHOOSE i \in 1..Len(chain) : chain[i] = p
  IN IF i = Len(chain) THEN NULL ELSE chain[i + 1]

\* a host exception was thrown and went up to the try block of the program
Thrown == status = "ok" /\ last.op = "throw"

\* C12: when a host exception thrown in the body of prompts goes up to the program's
\* try block on the system stack, every prompt of the chain is left in turn: the
\* release functions of the mpe_finally frames on its stack are called first, then
\* the prompt is unlinked, which makes its parent the top prompt, then it is dropped
\* (and freed when no multi-shot resumption refers to it), and the exception is thrown
\* again on the stack of the parent, where the prompt was entered or resumed; what is
\* caught at the end is the host exception, and no prompt is linked any more
T_C12 ==
  Thrown =>
     /\ last.tr[Len(last.tr)] = <<"caught", "host", 0>>
     /\ top = NULL
     /\ \A i \in 1..Len(last.chain0) : Did(<<"unlink", last.chain0[i], ParentIn(last.chain0, last.chain0[i])>>)
     /\ \A i \in 1..Len(last.tr) :
          last.tr[i][1] = "unlink" =>
             LET p == last.tr[i][2]
             IN /\ InSeq(p, last.chain0)
                /\ last.tr[i][3] = ParentIn(last.chain0, p)
                /\ last.tr[i + 1] = <<"rethrow", p, ParentIn(last.chain0, p)>>
                /\ OneShot => gs[p].freed = 1
                /\ \A fid \in 1..MaxFinally :
                     last.fg[fid] = p =>
                        \E j \in 1..(i - 1) : last.tr[j] = <<"release", fid>>

\* a host exception thrown inside an mpe_finally in the body of the inner of two
\* prompts was thrown again on the stack of the outer prompt and then on the system
\* stack, after the release function was called
W_C12 ==
  /\ Thrown /\ Len(last.chain0) = 2
  /\ \E fid \in 1..MaxFinally : last.fg[fid] = last.chain0[1] /\ rel[fid] = 1
  /\ Did(<<"rethrow", last.chain0[1], last.chain0[2]>>)
  /\ Did(<<"rethrow", last.chain0[2], 0>>)

\* the counter program has returned to main
CounterFinal == TopFrame(St).kind = "main" /\ HandlerCount = 1
\* the body of the counter program runs, and state_get has just returned
CounterRead ==
  /\ TopFrame(St).kind = "handle" /\ TopFrame(St).pc = 1
\* the body is about to perform a MULTI operation and the resumption records of the
\* model are used up
CounterStopped ==
  /\ status = "ok" /\ TopFrame(St).kind = "handle" /\ TopFrame(St).opk = "MULTI"
  /\ TopFrame(St).pc \in {0, 2} \/ (TopFrame(St).pc = 1 /\ last.rv > 0)
  /\ FreshMres(St) = {}

\* the counter program can take a step: the body can call state_get or state_set
\* or return, or an operation function can resume
CounterCanStep ==
  \/ CanPerform /\ (TopFrame(St).pc \in {0, 2} \/ (TopFrame(St).pc = 1 /\ last.rv > 0))
  \/ RunningE /\ TopFrame(St).kind = "handle" /\ TopFrame(St).pc = 1 /\ last.rv = 0
  \/ CounterOp(1)
  \/ CounterOp(2)

\* C18: under each of the four state handlers (TAIL_NOOP, TAIL, SCOPED_ONCE, MULTI),
\* started with n, the counter program runs without a failure, state_get returns n
\* less the number of iterations made so far, the program goes on until state_get
\* returns 0, and what state_handle then returns is the number of iterations, n
T_C18 ==
  HandlerCount = 1 =>
     /\ status = "ok"
     /\ CounterRead => last.rv = CounterN - TopFrame(St).loc
     /\ CounterFinal => last.rv = CounterN
     /\ ~CounterFinal => (CounterStopped \/ CounterCanStep)

\* the program started with 1 under the MULTI handler has made its three operations
\* and returned 1
W_C18 ==
  /\ status = "ok" /\ CounterFinal /\ last.op = "prompt_ret"
  /\ CounterN = 1 /\ last.rv = 1 /\ FreshMres(St) = {}

\* the operation in `last` was a perform of an operation of kind ABORT for which a
\* handler was found (last.h), whatever became of it
AbortOp == last.op = "perform" /\ last.h # NoPt /\ last.k = "ABORT"

\* the prompts between the perform site and the handler of `last`, the handler's included
Discarded ==
  {last.chain0[i] : i \in {i \in 1..Len(last.chain0) :
                              \A j \in 1..(i - 1) : last.chain0[j] # last.h[1]}}

\* C21: when an operation of kind ABORT has been performed, its operation function is
\* running with a NULL resumption directly in the call of mpe_handle of its handler, no
\* release function of an mpe_finally frame between the perform site and the handler
\* has been called and those frames are gone, and the stack of every prompt between the
\* perform site and the handler has been released once
CE_C21 ==
  AbortOp =>
     /\ status = "ok"
     /\ TopFrame(St).kind = "yfn" /\ TopFrame(St).rk = "null" /\ TopFrame(St).hloc = last.h
     /\ Did(<<"opfun", last.h>>)
     /\ LET n == Len(stacks[cur])
        IN stacks[cur][n - 1].kind = "resume" /\ stacks[cur][n - 1].init
           /\ stacks[cur][n - 1].p = last.h[1]
     /\ \A fid \in last.fb : rel[fid] = 0 /\ fid \notin FinallyLive(St)
     /\ \A p \in Discarded : gs[p].freed = 1

\* built with assertions, an ABORT operation was performed from the body of a handler
\* nested in the handler of the operation: the process stopped at the assertion of
\* mp_prompt_free with no stack released
W_C21 ==
  /\ AbortOp /\ debug /\ status = "assert" /\ failed = "free:refcount==0"
  /\ Cardinality(Discarded) = 2
  /\ \A p \in Discarded : gs[p].freed = 0

\* the operation in `last` was a perform for which mpe_find gave no handler
Unhandled == last.op = "perform" /\ last.h = NoPt

\* C24: a perform for which the search finds no handler (there is none of its effect on
\* the shadow stack, or mask and `under` frames hide them all) prints the diagnostic
\* and returns NULL to the performer, on the same stack, with the shadow stack, the
\* prompt chain and the top prompt as they were; with no handler of the effect on the
\* shadow stack the search finds none
T_C24 ==
  /\ Unhandled =>
        /\ status = "ok"
        /\ last.tr = <<<<"unhandled", last.e>>>>
        /\ last.rv = NULL
        /\ cur = last.g0 /\ FrameList(St) = last.fl0 /\ mpe_frame_top = FirstOr(last.fl0)
        /\ Chain(St) = last.chain0 /\ top = last.tp0
  /\ (status = "ok" /\ last.op = "perform" /\ HandlersIn(last.fl0, last.e) = <<>>) => Unhandled

\* an operation was performed inside two handlers of its effect, both hidden by masks,
\* and returned NULL after the diagnostic
W_C24 ==
  /\ Unhandled /\ status = "ok" /\ last.rv = NULL /\ Did(<<"unhandled", last.e>>)
  /\ Len(HandlersIn(last.fl0, last.e)) = 2
  /\ Len(MasksIn(last.fl0, last.e)) = 2 /\ UndersIn(last.fl0) = <<>>

\* the yield function of a yield to last.p has just started
YfnStarted ==
  /\ status = "ok" /\ last.op = "yield"
  /\ TopFrame(St).kind = "yfn" /\ TopFrame(St).fresh /\ TopFrame(St).p = last.p

\* a step in which a yield function finishes with mp_resume_tail on its resumption
TailResumed ==
  /\ status = "ok" /\ TopFrame(St).kind = "yfn" /\ TopFrame(St).rk = "once"
  /\ status' = "ok" /\ last'.op = "resume_tail" /\ last'.p = TopFrame(St).p

\* C25: a yield function runs directly above the frame that holds the return point of
\* its prompt, and mp_resume_tail on its resumption leaves that return point where it
\* is and pushes no frame on the stack of the yield function; so in a loop of yields
\* that are each finished by mp_resume_tail every yield function runs at the same
\* depth of the parent's stack as the first
T_C25 ==
  /\ [](YfnStarted =>
          /\ prompts[last.p].return_point = <<cur, Len(stacks[cur]) - 1>>
          /\ stacks[cur][Len(stacks[cur]) - 1].kind = "resume")
  /\ [][TailResumed =>
          /\ prompts'[TopFrame(St).p].return_point = prompts[TopFrame(St).p].return_point
          /\ Len(stacks'[cur]) = Len(stacks[cur])]_vars

\* the yield function of the second yield of a prompt runs right above the frame that
\* entered the prompt: the first was finished by mp_resume_tail
W_C25 ==
  /\ YfnStarted /\ gs[last.p].gen = 2 /\ hist.yields = 2
  /\ cur = 0 /\ Len(stacks[0]) = 3
  /\ stacks[0][2].kind = "resume" /\ stacks[0][2].init /\ stacks[0][2].p = last.p

\* the stack_cache_count that the thread was configured with: the setting given to
\* mp_init (a negative one disables the cache), 4 when none was given
ConfiguredCacheCount ==
  IF gstk.config = <<>> THEN GstkStart.os_gstack_cache_max_count
  ELSE IF gstk.config[1].stack_cache_count < 0 THEN 0
  ELSE gstk.config[1].stack_cache_count

\* C26: after any sequence of gstack allocations, frees (delayed or not) and cache
\* clears on a thread, the number of stacks held in the thread's cache never exceeds
\* the configured stack_cache_count; the count kept by the code is the length of the list
T_C26 ==
  /\ Len(gstk.cache) <= ConfiguredCacheCount
  /\ gstk.cache_count = Len(gstk.cache)
  /\ \A i \in 1..Len(gstk.cache) : gstk.g[gstk.cache[i]].st = "cache"

\* a stack is freed while the cache holds as many stacks as configured (one): it goes
\* back to the OS
W_C26 ==
  /\ status = "ok" /\ gstk.ev.op = "free" /\ ~gstk.ev.x
  /\ ConfiguredCacheCount = 1 /\ Len(gstk.cache) = 1
  /\ gstk.g[gstk.ev.g].st = "freed"

\* mp_gstack_alloc has returned
AllocReturned == status = "ok" /\ gstk.ev.op = "alloc"

\* the stacks that were on the delayed-free list as the last call started
Delayed0 == {gstk.ev.delayed0[i] : i \in 1..Len(gstk.ev.delayed0)}

\* C28: when mp_gstack_alloc is called while no host exception unwind is in progress,
\* every stack on the thread's delayed-free list has been taken off that list (moved to
\* the cache or released) before the allocation returns; while an unwind is in progress
\* no stack on the delayed-free list is released or handed out again (by mp_gstack_alloc
\* or by mp_gstack_clear_cache)
T_C28 ==
  /\ AllocReturned /\ ~gstk.ev.unwinding =>
       /\ gstk.delayed = <<>>
       /\ \A g \in Delayed0 : gstk.g[g].st \in {"cache", "freed", "out"}
       /\ \A g \in Delayed0 : gstk.g[g].st = "out" => gstk.ret = g
  /\ status = "ok" /\ gstk.ev.op \in {"alloc", "clear_cache"} /\ gstk.ev.unwinding =>
       /\ gstk.delayed = gstk.ev.delayed0
       /\ \A g \in Delayed0 : gstk.g[g].st = "delayed"
       /\ \A g \in Delayed0 : gstk.ev.op = "alloc" => gstk.ret # g

\* an allocation in a C++ build finds a stack on the delayed-free list and no unwind in
\* progress: the stack went to the cache and the allocation gave a stack
W_C28 ==
  /\ AllocReturned /\ ~gstk.ev.unwinding /\ cpp
  /\ Len(gstk.ev.delayed0) = 1 /\ gstk.delayed = <<>>
  /\ gstk.g[gstk.ev.delayed0[1]].st = "cache" /\ gstk.ret # 0

\* the blocks of the pool gp that are marked as in use: those that are not on its free
\* stack (the first block holds the pool itself)
UsedBlocks(gp) ==
  LET last_sp == IF FreeLen < gp.block_count - 1 THEN FreeLen ELSE gp.block_count - 1
      free == {gp.block_count - (gp.free[i] + i) : i \in gp.free_sp..last_sp}
  IN {gp.block_count - i : i \in 1..last_sp} \ free

\* the blocks of the pool gp that hold a gstack of the thread
HeldBlocks(gp) ==
  {(gstk.g[g].full - gp.addr) \div gp.block_size :
     g \in {g \in GIdx : /\ gstk.g[g].st \in GLive /\ gstk.g[g].pooled
                         /\ gp.addr <= gstk.g[g].full
                         /\ gstk.g[g].full < gp.addr + gp.size}}

\* every reserved range is a pool or the range of a gstack, every block in use holds a
\* gstack, and no record is left from an allocation
NoLeak ==
  /\ \A m \in gstk.maps :
       \/ \E i \in 1..Len(gstk.pools) : gstk.pools[i].addr = m.addr
       \/ \E g \in GIdx : gstk.g[g].st \in GLive /\ ~gstk.g[g].pooled /\ gstk.g[g].full = m.addr
  /\ \A i \in 1..Len(gstk.pools) : UsedBlocks(gstk.pools[i]) = HeldBlocks(gstk.pools[i])
  /\ \A g \in GIdx : gstk.g[g].st # "malloced"

\* C30: if the OS refuses to reserve or commit the memory for a new stack,
\* mp_gstack_alloc returns NULL (errno is ENOMEM) and everything acquired for that stack
\* so far (the reserved range or gpool block and the stack record) has been released
\* again: nothing is leaked and no gpool block is left marked as in use
T_C30 ==
  AllocReturned /\ gstk.refused =>
    /\ gstk.ret = 0 /\ gstk.errno = "ENOMEM"
    /\ NoLeak

\* the OS refuses to commit the first pages of a block taken from a pool that holds a
\* gstack: the allocation gave NULL and the block is back on the free stack
W_C30 ==
  /\ AllocReturned /\ gstk.refused /\ gstk.ret = 0
  /\ "failed to commit memory" \in gstk.diag
  /\ Len(gstk.pools) = 1 /\ Cardinality(UsedBlocks(gstk.pools[1])) = 1
  /\ gstk.pools[1].free_sp = 2 /\ gstk.pools[1].block_count > 2

\* the settings of a library initialized without a configuration: the defaults
DefaultSettings == mp_gstack_init_align(mp_gstack_os_init(GstkStart, FALSE, FALSE))

\* the library was initialized with a configuration
Configured == status = "ok" /\ gstk.os_page_size # 0 /\ gstk.config # <<>>

\* the size settings whose configured value is zero have their default
ZeroSizesDefault ==
  LET c == gstk.config[1]
      d == DefaultSettings
  IN /\ c.gpool_max_size = 0 => gstk.os_gpool_max_size = d.os_gpool_max_size
     /\ c.stack_max_size = 0 => gstk.os_gstack_size = d.os_gstack_size
     /\ c.stack_exn_guaranteed = 0 => gstk.os_gstack_exn_guaranteed = d.os_gstack_exn_guaranteed
     /\ c.stack_initial_commit = 0 => gstk.os_gstack_initial_commit = d.os_gstack_initial_commit
     /\ c.stack_gap_size = 0 => gstk.os_gstack_gap = d.os_gstack_gap

\* C29: for every field of the configuration passed at initialisation, the value zero
\* selects that field's documented default, including stack_cache_count and the boolean
\* fields such as gpool_enable
CE_C29 ==
  Configured =>
    LET c == gstk.config[1]
        d == DefaultSettings
    IN /\ ZeroSizesDefault
       /\ c.stack_cache_count = 0 => gstk.os_gstack_cache_max_count = d.os_gstack_cache_max_count
       /\ ~c.gpool_enable => gstk.os_use_gpools = d.os_use_gpools
       /\ ~c.stack_grow_fast => gstk.os_gstack_grow_fast = d.os_gstack_grow_fast
       /\ ~c.stack_use_overcommit => gstk.os_use_overcommit = d.os_use_overcommit
       /\ ~c.stack_reset_decommits => gstk.os_gstack_reset_decommits = d.os_gstack_reset_decommits

\* the library was initialized with an all-zero configuration: stacks are not cached,
\* gpools are off and stacks do not grow by doubling, where the defaults are a cache of
\* 4 stacks, gpools and doubling
W_C29 ==
  /\ Configured /\ gstk.config[1] = ZeroConfig
  /\ gstk.os_gstack_cache_max_count = 0 /\ DefaultSettings.os_gstack_cache_max_count = 4
  /\ ~gstk.os_use_gpools /\ DefaultSettings.os_use_gpools
  /\ ~gstk.os_gstack_grow_fast /\ DefaultSettings.os_gstack_grow_fast

\* a write faulted in a gap and the fault was dealt with: by the handler of the library,
\* or by the default action of the signal when no handler is installed
GapFaultTaken == gstk.fgap /\ gstk.fault # 0 /\ (gstk.faults > 0 \/ status = "segv")

\* the process has ended
Terminated == status \in {"exit", "segv"}

\* C27: a write that faults in the guard gap of any gstack terminates the process with
\* a stack-overflow diagnostic; such a fault is never resolved by committing memory, and
\* execution never continues into another gstack's usable range
CE_C27 ==
  /\ GapFaultTaken => Terminated /\ "stack overflow" \in gstk.diag
  /\ ~gstk.gap_rw
  /\ gstk.fgap /\ status = "ok" => gstk.fault # 0

\* the running gstack (mmap stacks, no signal handler installed before the library's)
\* overflowed into its lower gap: the handler printed the diagnostic and returned, the
\* write faulted again, the handler ran a second time, and the process is still running
W_C27 ==
  /\ GapFaultTaken /\ status = "ok" /\ gstk.faults = 2
  /\ ~gstk.os_use_gpools /\ ~gstk.prev /\ gstk.current # 0
  /\ gstk.fault = gstk.g[gstk.current].stack - gstk.os_page_size
  /\ "stack overflow" \in gstk.diag

\* the reader handler that is answering an ask: its frame on the shadow stack
RhAnswering == FrameAt(St, TopFrame(St).hloc)

\* C22: when a ONCE resumption escapes its handler as a value and is later resumed
\* underneath a different enclosing handler, the operations that the resumed computation
\* performs for effects handled outside the captured region go to the handlers that
\* enclose the resume site, not to those that enclosed the original perform: in
\* rehandle.c the ask before the capture is answered by the first reader (under init1),
\* the ask after the resume by the second reader (under init2), and the result is
\* init1 + init2
T_C22 ==
  /\ status = "ok"
  /\ TopFrame(St).kind = "opfun" =>
       /\ RhAnswering.kind = "handle" /\ RhAnswering.eff = ReaderEff
       /\ RhAnswering.p = (IF RhCall = 1 THEN 1 ELSE 3)
       /\ RhAnswering.local = stacks[0][1].loc[RhCall]
       /\ cur = 2 /\ gs[RhAnswering.p].freed = 0
  /\ RhCall = 3 => stacks[0][1].res = stacks[0][1].loc[1] + stacks[0][1].loc[2]

\* the test has run with init1 = 1 and init2 = 2: the result is 3, and the first
\* reader's prompt was freed before the resumption was resumed under the second
W_C22 ==
  /\ status = "ok" /\ RhCall = 3
  /\ stacks[0][1].loc = <<1, 2>> /\ stacks[0][1].res = 3
  /\ gs[1].freed = 1

\* foo runs (its frame is that of the inner handler) and is at pc
AsFooAt(pc) ==
  /\ Len(stacks[cur]) > 0 /\ TopFrame(St).kind = "handle" /\ TopFrame(St).eff = AsInnerEff
  /\ AsCall \in {1, 2} /\ TopFrame(St).pc = pc

\* the local of the state handler that encloses foo
AsStateLocal ==
  IF TopFrame(St).eff = StateEff THEN TopFrame(St).local
  ELSE FrameAt(St, TopFrame(St).fparent).local

\* C23: in amb_state(), where the amb handler encloses the state handler, each
\* resumption of the flip of foo finds the local of the state handler as it was when
\* the flip was performed (0), so state_get gives 0 in both branches and the list has
\* 2 elements; in state_amb(), where the state handler encloses the amb handler, the
\* branch resumed with true finds the local that the branch resumed with false left
\* (1), so state_get gives 1 there, xxor runs, and the list has 5 elements; no step
\* of the test fails
T_C23 ==
  /\ status = "ok"
  /\ AsFooAt(1) => AsStateLocal = (IF AsCall = 1 THEN 0 ELSE last.rv)
  /\ AsFooAt(3) => TopFrame(St).loc.i = (IF AsCall = 1 THEN 0 ELSE TopFrame(St).loc.p)
  /\ AsCall >= 2 /\ AsCall <= 3 => blist_length(stacks[0][1].res) = 2
  /\ AsCall = 3 => blist_length(stacks[0][1].loc) = 5

\* test() has both lists: [false,false] and [false,false,true,true,false]
W_C23 ==
  /\ status = "ok" /\ AsCall = 3
  /\ stacks[0][1].res = <<0, 0>> /\ stacks[0][1].loc = <<0, 0, 1, 1, 0>>

\* the gstacks that hold a block of a gpool: handed out by an allocation and not given
\* back to the pool (a stack in the cache or on the delayed list still holds its block)
PoolStacks == {g \in GIdx : gstk.g[g].st \in GLive /\ gstk.g[g].pooled}

\* the pool and the block that the address a lies in
PoolOf(a) ==
  {i \in 1..Len(gstk.pools) : gstk.pools[i].addr <= a /\ a < gstk.pools[i].addr + gstk.pools[i].size}
BlockOf(i, a) == (a - gstk.pools[i].addr) \div gstk.pools[i].block_size

\* C32: after any sequence of allocations and frees, no block of a gpool is held by
\* two stacks (an allocation never returns a block that was handed out and is not yet
\* freed), every block handed out lies at a block boundary of one pool and is not
\* block 0, which holds the gpool's own meta-data, and the blocks marked as in use on
\* the free stack of a pool are exactly the blocks that are handed out
T_C32 ==
  /\ \A g1 \in PoolStacks, g2 \in PoolStacks : g1 # g2 => gstk.g[g1].full # gstk.g[g2].full
  /\ \A g \in PoolStacks :
       /\ Cardinality(PoolOf(gstk.g[g].full)) = 1
       /\ \A i \in PoolOf(gstk.g[g].full) :
            /\ (gstk.g[g].full - gstk.pools[i].addr) % gstk.pools[i].block_size = 0
            /\ BlockOf(i, gstk.g[g].full) > 0
            /\ BlockOf(i, gstk.g[g].full) < gstk.pools[i].block_count
  /\ status = "ok" =>
       \A i \in 1..Len(gstk.pools) : UsedBlocks(gstk.pools[i]) = HeldBlocks(gstk.pools[i])

\* two stacks are handed out from one pool; the second allocation took the block
\* that was freed to the pool before (its entry is still in the free array)
W_C32 ==
  /\ status = "ok" /\ gstk.ev.op = "alloc" /\ gstk.ret # 0
  /\ PoolStacks = GIdx /\ \A g \in GIdx : gstk.g[g].st = "out"
  /\ Len(gstk.pools) = 1 /\ gstk.pools[1].free_sp = 3 /\ gstk.pools[1].free[2] = 0 - 1
  /\ BlockOf(1, gstk.g[gstk.ret].full) = gstk.pools[1].block_count - 1

\* the pool gp has a block on its free stack
HasFreeBlock(gp) == gp.free_sp < gp.block_count

\* a step that reserves a fresh gpool
PoolReserved == Len(gstk.pools') > Len(gstk.pools)

\* C35: a stack allocation reserves a fresh gpool only when no gpool already in the
\* list has a free block: a step that adds a pool to the list starts in a state where
\* every pool of the list is exhausted
CE_C35 ==
  [][PoolReserved => \A i \in 1..Len(gstk.pools) : ~HasFreeBlock(gstk.pools[i])]_vars

\* an allocation has reserved a third pool and returned a block of it, while the
\* first pool created, the last of the list, has all its blocks free
W_C35 ==
  /\ status = "ok" /\ gstk.ev.op = "alloc" /\ gstk.ret # 0
  /\ Len(gstk.pools) = 3 /\ gstk.pools[3].free_sp = 1 /\ HasFreeBlock(gstk.pools[3])
  /\ PoolOf(gstk.g[gstk.ret].full) = {1}

\* a fault in the usable range of the current gstack was handled by the handler op:
\* pages were committed and the write went through
FaultHandled(op) ==
  /\ status = "ok" /\ gstk.ev.op = op /\ gstk.ev.g # 0
  /\ gstk.ret = 1 /\ gstk.fault = 0

\* of that fault: the page of the address, the used span (from the base of the stack
\* down to that page), the bytes left below it in the usable range, and the bytes
\* committed beyond the page
FaultPage      == mp_align_down(gstk.ev.x.addr, gstk.os_page_size)
FaultUsed      == mp_unpush(FaultPage, gstk.g[gstk.ev.g].stack, gstk.g[gstk.ev.g].stack_size)
FaultAvailable == gstk.g[gstk.ev.g].stack_size - FaultUsed
FaultExtra     == gstk.g[gstk.ev.g].committed - FaultUsed

FreedInUnwind == status = "ok" /\ gstk.ev.op = "free" /\ gstk.ev.unwinding

\* C37: a stack that is freed while a host exception unwind is in progress is placed
\* on the thread's delayed-free list, and is neither put in the cache nor returned to
\* the OS at that moment, whatever the caller passed for `delay`
CE_C37 ==
  FreedInUnwind =>
    /\ gstk.g[gstk.ev.g].st = "delayed"
    /\ gstk.delayed = <<gstk.ev.g>> \o gstk.ev.delayed0

\* a stack was freed with delay = false while an exception was unwinding and the cache
\* was full: its memory went back to the OS at once
W_C37 ==
  /\ FreedInUnwind /\ ~gstk.ev.x /\ cpp /\ gstk.uncaught
  /\ gstk.g[gstk.ev.g].st = "freed" /\ gstk.delayed = gstk.ev.delayed0

\* how often gstack g is linked into list l
Links(l, g) == Cardinality({i \in 1..Len(l) : l[i] = g})

\* the gstacks that own memory: handed out, cached, or waiting on the delayed list
GOwners == {g \in GIdx : gstk.g[g].st \in GLive}

\* C38: at all times every gstack is in exactly one place: in use, in the thread-local
\* cache, or on the delayed-free list; no stack is linked into both lists, none appears
\* twice in a list, a stack in use is in neither list, and no two gstacks share memory
T_C38 ==
  /\ \A g \in GIdx :
       /\ Links(gstk.cache, g) = (IF gstk.g[g].st = "cache" THEN 1 ELSE 0)
       /\ Links(gstk.delayed, g) = (IF gstk.g[g].st = "delayed" THEN 1 ELSE 0)
  /\ \A i \in 1..Len(gstk.cache) : gstk.cache[i] \in GIdx
  /\ \A i \in 1..Len(gstk.delayed) : gstk.delayed[i] \in GIdx
  /\ \A g, h \in GOwners : g # h => gstk.g[g].full # gstk.g[h].full

\* one gstack is in use, and a second one was taken off the delayed list and cached
\* by the allocation that handed out the first
W_C38 ==
  /\ status = "ok" /\ gstk.ev.op = "alloc" /\ gstk.ret # 0
  /\ gstk.g[gstk.ret].st = "out"
  /\ \E g \in GIdx : g # gstk.ret /\ Links(gstk.ev.delayed0, g) = 1
                     /\ gstk.g[g].st = "cache" /\ gstk.cache = <<g>>

\* the prompts of the saved images of list save, in the order of the list
SavedPrompts(save) == [i \in 1..Len(save) |-> save[i].prompt]

\* the resumption r is held by the client and has saved images
HasSaves(r) == mres[r].alloc = "live" /\ mres[r].save # <<>>

MaxDYields  == 2     \* multi-shot yields of a program that nests prompts
MaxDResumes == 2     \* multi-shot resumes of a program that nests prompts

\* mp_myield(p, yfn, v) of a program that nests prompts
MpMyieldD == hist.yields < MaxDYields /\ MpMyield

\* mp_mresume(r, v) of a program that nests prompts
MpMresumeD == hist.resumes < MaxDResumes /\ MpMresume

NextD ==
  \/ MpPrompt
  \/ Return
  \/ MpMyieldD
  \/ YfnReturn
  \/ MpMresumeDup
  \/ MpMresumeD
  \/ MpMresumeDrop

SpecD == Init /\ [][NextD]_vars

\* the step is a mp_mresume_drop or mp_mresume that consumes the last reference to r,
\* made while no earlier resume of r is still running
LastReference(r) ==
  /\ mres[r].alloc = "live" /\ mres[r].refcount = 1
  /\ ~(Live(mres[r].prompt) /\ mp_prompt_is_active(St, mres[r].prompt))
  /\ last'.op \in {"mdrop", "mresume"} /\ mres'[r] # mres[r]

\* every reference count in the records and in their saved copies
Refcounts ==
  {prompts[p].refcount : p \in PIds} \cup {mres[r].refcount : r \in MIds}
    \cup UNION {{mres[r].save[i].gsave.extra.refcount : i \in 1..Len(mres[r].save)} : r \in MIds}

\* the program is back in main, holds no resumption, and no prompt is active
AllConsumed ==
  /\ status = "ok" /\ top = NULL /\ cur = 0 /\ Len(stacks[0]) = 1
  /\ \A r \in MIds : mres[r].alloc # "live"

\* C40: when the last of the references to a multi-shot resumption is consumed the
\* call completes and the record is freed; if that is the drop of a resumption that was
\* never resumed, every prompt of the captured chain is freed with it, exactly once; no
\* prompt is freed while a resumption that captured it is still held; no reference
\* count is ever negative, no stack is freed twice, and once all references are
\* consumed every prompt that was created has been freed exactly once
CE_C40 ==
  [][
      /\ \A r \in MIds : LastReference(r) =>
           /\ status' = "ok" /\ mres'[r].alloc = "freed"
           /\ (last'.op = "mdrop" /\ mres[r].resume_count = 0
                 /\ prompts[mres[r].prompt].refcount = 1) =>
                \A i \in 1..Len(CapturedChain(St, mres[r].prompt)) :
                   gs'[CapturedChain(St, mres[r].prompt)[i]].freed = 1
      /\ \A r \in MIds : mres'[r].alloc = "live" => gs'[mres'[r].prompt].freed = 0
      /\ \A n \in Refcounts' : n >= 0
      /\ \A p \in PIds : gs'[p].freed <= 1
      /\ AllConsumed' => \A p \in PIds : gs'[p].st # "none" => gs'[p].freed = 1
   ]_vars

\* the only reference to a resumption that captured a chain of two prompts was dropped
\* without a resume: the drop stopped at the assertion of mp_prompt_free and no stack
\* was freed
W_C40 ==
  /\ last.op = "mdrop" /\ status = "assert" /\ failed = "free:refcount==0"
  /\ \E r \in MIds :
       /\ mres[r].alloc = "live" /\ mres[r].prompt = last.p /\ mres[r].resume_count = 0
       /\ mres[r].save = <<>>
       /\ Len(CapturedChain(St, last.p)) = 2
       /\ \A i \in 1..2 : gs[CapturedChain(St, last.p)[i]].freed = 0

\* the stacks the thread executes on, from the current one down to the system stack
RECURSIVE ExecStacks(_, _, _)
ExecStacks(s, g, n) ==
  IF g = 0 \/ n = 0 THEN <<0>>
  ELSE <<g>> \o ExecStacks(s, s.prompts[g].parent, n - 1)

\* the handler, under, mask and finally frames on stack g from index i down
RECURSIVE ShadowOn(_, _, _)
ShadowOn(s, g, i) ==
  IF i = 0 THEN <<>>
  ELSE (IF s.stacks[g][i].kind \in ShadowKinds THEN <<(<<g, i>>)>> ELSE <<>>)
         \o ShadowOn(s, g, i - 1)

\* the frames whose scope is open in the running computation, innermost first
RECURSIVE ScopesOf(_, _)
ScopesOf(s, gl) ==
  IF gl = <<>> THEN <<>>
  ELSE ShadowOn(s, Head(gl), Len(s.stacks[Head(gl)])) \o ScopesOf(s, Tail(gl))

OpenScopes(s) == ScopesOf(s, ExecStacks(s, s.cur, MaxIds))

\* C31: whenever client code runs, the thread's shadow stack is the list of the
\* handler, under, mask and finally frames whose scope is open in the running
\* computation, innermost first: a frame is linked when its scope is entered, is
\* unlinked when the scope ends in whatever way, and after mpe_handle, mpe_mask,
\* mpe_finally or a perform completes the frame top is what it was before the call
CE_C31 ==
  (status = "ok" /\ RunningE) =>
     /\ FrameList(St) = OpenScopes(St)
     /\ mpe_frame_top = FirstOr(OpenScopes(St))

\* in a C++ build an ABORT operation was performed under its handler: the operation
\* function runs in the caller of mpe_handle with no scope open, and the frame top is
\* still the handler frame, on the stack that the drop has freed
W_C31 ==
  /\ status = "ok" /\ cpp /\ last.op = "perform"
  /\ TopFrame(St).kind = "yfn" /\ TopFrame(St).opk = "ABORT"
  /\ OpenScopes(St) = <<>>
  /\ mpe_frame_top # NoPt /\ ~LiveFrame(St, mpe_frame_top)
  /\ gs[mpe_frame_top[1]].freed = 1

\* ---- threads on one gpool (gstack_gpool.c, internal/atomic.h) ---------------------------
\* The list of gpools is global: every thread allocates from it and frees to it.  A
\* thread is a record of its position (pc) in mp_gpool_allocx or mp_gpool_free and of
\* the locals of that call; a step of a thread is one access to the shared memory.

MaxThreads == 2      \* threads that allocate and free at the same time
PoolBlocks == 3      \* blocks of the gpool they share (the first holds the mp_gpool_t)

Threads == 1..MaxThreads

\* op: the call in progress; gp: the pool of its loop; sp, idx, block_idx, _access: its
\* locals; stk: the argument of mp_gpool_free; held: the stacks the thread owns;
\* ret: what its last call returned
NoThread == [pc |-> "idle", op |-> "", gp |-> 0, sp |-> 0, idx |-> 0, block_idx |-> 0,
             access |-> 0, stk |-> 0, held |-> {}, ret |-> 0]

\* the positions between mp_spin_lock_acquire and mp_spin_lock_release
InLock == {"pop_sp", "pop_inc", "pop_idx", "push_dec", "push_decw", "push_sp",
           "push_store", "unlock"}

\* mp_spin_lock_acquire that takes the lock whoever holds it
mp_spin_lock_acquire_blind(l) == [acquired |-> TRUE, l |-> 1]

\* one round of the loop of mp_spin_lock_acquire: mp_atomic_cas(l, &expected, 1) with
\* expected = 0
mp_spin_lock_acquire(l) ==
  IF l = 0 THEN [acquired |-> TRUE, l |-> 1] ELSE [acquired |-> FALSE, l |-> l]

\* mp_atomic_store(l, 0)
mp_spin_lock_release(l) == 0

\* mp_init with a small gpool
CfgPoolT == [CfgSmallPool EXCEPT !.gpool_max_size = PoolBlocks * 128 * MP_KIB]

Thr(t)      == gstk.thr[t]
ThrPool(t)  == gstk.pools[Thr(t).gp]
TRunning    == status = "ok" /\ gstk.thr # <<>>
At(t, pc)   == TRunning /\ Thr(t).pc = pc

\* the call of thread t returns ret: its locals are gone
Returned(t, ret, held) == [NoThread EXCEPT !.op = Thr(t).op, !.ret = ret, !.held = held]

\* thread t goes on with the locals in r; the shared memory becomes g
TStep(g, t, r) == Apply([St EXCEPT !.gstk = [g EXCEPT !.thr[t] = r]])

\* the main thread (thread 1) initializes the library and allocates its first stack,
\* which reserves the gpool; then the other threads start
TStart ==
  /\ status = "ok" /\ gstk.os_page_size = 0 /\ gstk.thr = <<>>
  /\ LET s1 == mp_gstack_init(St, <<CfgPoolT>>, FALSE, FALSE)
         s2 == mp_gpool_alloc(s1, OsYes)
     IN Apply([s2 EXCEPT
          !.gstk.thr = [t \in Threads |->
                          IF t = 1 THEN [NoThread EXCEPT !.held = {s2.gstk.out.full}]
                          ELSE NoThread],
          !.gstk.lin = [pools |-> s2.gstk.pools,
                        res |-> [t \in Threads |-> [ret |-> 0, status |-> "ok"]]]])

\* a thread calls mp_gpool_allocx: for (gp = mp_gpool_first(); ...
TAllocCall(t) ==
  /\ At(t, "idle")
  /\ TStep(gstk, t, [NoThread EXCEPT !.pc = "access", !.op = "alloc", !.gp = 1,
                                     !.held = Thr(t).held])

\* _access += gp->free[gp->free_sp + 64], outside the lock: while another thread
\* writes in the lock the read races with it and gives any of the values around
TAccess(t) ==
  /\ At(t, "access")
  /\ IF Thr(t).gp > Len(gstk.pools)
       THEN TStep(gstk, t, Returned(t, 0, Thr(t).held))
       ELSE LET gp    == ThrPool(t)
                i     == gp.free_sp + 64
                read  == IF i \in DOMAIN gp.free THEN gp.free[i] ELSE 0
                races == \E u \in Threads : u # t /\ Thr(u).pc \in InLock /\ Thr(u).gp = Thr(t).gp
            IN \E v \in (IF races THEN {gp.free[j] : j \in DOMAIN gp.free} \cup {read}
                         ELSE {read}) :
                 TStep(gstk, t, [Thr(t) EXCEPT !.pc = "lock", !.access = v])

\* mp_spin_lock_acquire(&gp->free_lock): the loop goes round until the cas succeeds
TAcquire(t) ==
  /\ At(t, "lock")
  /\ LET a == mp_spin_lock_acquire(ThrPool(t).free_lock) IN
       /\ a.acquired
       /\ TStep([gstk EXCEPT !.pools[Thr(t).gp].free_lock = a.l], t,
                [Thr(t) EXCEPT !.pc = IF Thr(t).op = "alloc" THEN "pop_sp" ELSE "push_dec"])

\* sp = gp->free_sp
TPopSp(t) ==
  /\ At(t, "pop_sp")
  /\ TStep(gstk, t, [Thr(t) EXCEPT !.pc = "pop_inc", !.sp = ThrPool(t).free_sp])

\* if (sp < gp->block_count) { gp->free_sp = sp + 1; ...
TPopInc(t) ==
  /\ At(t, "pop_inc")
  /\ IF Thr(t).sp < ThrPool(t).block_count
       THEN TStep([gstk EXCEPT !.pools[Thr(t).gp].free_sp = Thr(t).sp + 1], t,
                  [Thr(t) EXCEPT !.pc = "pop_idx"])
       ELSE TStep(gstk, t, [Thr(t) EXCEPT !.pc = "unlock"])

\* ... block_idx = gp->free[sp] + sp; }
TPopIdx(t) ==
  /\ At(t, "pop_idx")
  /\ TStep(gstk, t, [Thr(t) EXCEPT !.pc = "unlock",
                                   !.block_idx = ThrPool(t).free[Thr(t).sp] + Thr(t).sp])

\* what the call of thread t gives when it is made, alone, after the calls that left
\* the lock before it
Alone(t) ==
  LET s == [St EXCEPT !.gstk.pools = gstk.lin.pools, !.gstk.out = NoOut] IN
  IF Thr(t).op = "alloc" THEN mp_gpool_allocx_from(s, 1)
  ELSE mp_gpool_free_from(s, Thr(t).stk, 1)

\* mp_spin_lock_release(&gp->free_lock)
TRelease(t) ==
  /\ At(t, "unlock")
  /\ TStep([gstk EXCEPT
              !.pools[Thr(t).gp].free_lock = mp_spin_lock_release(@),
              !.lin.pools = Alone(t).gstk.pools,
              !.lin.res[t] = [ret |-> Alone(t).gstk.out.full, status |-> Alone(t).status]],
           t, [Thr(t) EXCEPT !.pc = IF Thr(t).op = "alloc" THEN "alloc_ret" ELSE "free_ret"])

\* the rest of the loop body of mp_gpool_allocx, after the lock
TAllocReturn(t) ==
  /\ At(t, "alloc_ret")
  /\ LET gp        == ThrPool(t)
         block_idx == gp.block_count - Thr(t).block_idx         \* grow from top
         p         == gp.addr + block_idx * gp.block_size
         r         == IF block_idx > 0
                        THEN IF block_idx >= gp.block_count       \* paranoia
                               THEN Returned(t, 0, Thr(t).held)
                               ELSE Returned(t, p, Thr(t).held \cup {p})
                        ELSE [Thr(t) EXCEPT !.pc = "access", !.gp = @ + 1]
         s1        == mp_assert(St, block_idx >= 0 /\ block_idx < gp.block_count,
                                "gpool_allocx:block_idx")
     IN Apply(IF Ok(s1) THEN [s1 EXCEPT !.gstk.thr[t] = r] ELSE s1)

\* the pool that holds stk: the search of mp_gpool_free (0: none)
PoolWith(stk) ==
  LET in == {i \in 1..Len(gstk.pools) :
               stk - gstk.pools[i].addr >= 0 /\ stk - gstk.pools[i].addr < gstk.pools[i].size}
  IN IF in = {} THEN 0 ELSE CHOOSE i \in in : \A j \in in : i <= j

\* a thread calls mp_gpool_free with a stack it owns: the part before the lock
TFreeCall(t) ==
  /\ At(t, "idle")
  /\ \E stk \in Thr(t).held :
       LET i         == PoolWith(stk)
           gp        == gstk.pools[i]
           ofs       == stk - gp.addr
           block_idx == ofs \div gp.block_size
           r         == [NoThread EXCEPT !.op = "free", !.held = Thr(t).held \ {stk}]
           s1 == mp_assert(St, ofs % gp.block_size = 0, "gpool_free:aligned")
           s2 == mp_assert(s1, block_idx > 0, "gpool_free:block_idx>0")
           s3 == mp_assert(s2, block_idx < gp.block_count, "gpool_free:block_idx<count")
       IN IF i = 0 THEN TStep(gstk, t, r)
          ELSE Apply(IF ~Ok(s3) THEN s3
                     ELSE IF block_idx = 0 \/ block_idx >= gp.block_count
                       THEN [s3 EXCEPT !.gstk.thr[t] = r]
                     ELSE [s3 EXCEPT !.gstk.thr[t] =
                             [r EXCEPT !.pc = "lock", !.gp = i, !.stk = stk,
                                       !.block_idx = block_idx,
                                       !.idx = gp.block_count - block_idx]])  \* reverse

\* gp->free_sp--: the value is read ...
TPushDec(t) ==
  /\ At(t, "push_dec")
  /\ TStep(gstk, t, [Thr(t) EXCEPT !.pc = "push_decw", !.sp = ThrPool(t).free_sp])

\* ... and one less is written
TPushDecW(t) ==
  /\ At(t, "push_decw")
  /\ TStep([gstk EXCEPT !.pools[Thr(t).gp].free_sp = Thr(t).sp - 1], t,
           [Thr(t) EXCEPT !.pc = "push_sp"])

\* sp = gp->free_sp
TPushSp(t) ==
  /\ At(t, "push_sp")
  /\ TStep(gstk, t, [Thr(t) EXCEPT !.pc = "push_store", !.sp = ThrPool(t).free_sp])

\* idx = idx - sp; gp->free[sp] = (uint16_t)idx
TPushStore(t) ==
  /\ At(t, "push_store")
  /\ LET sp == Thr(t).sp IN
     IF sp \notin DOMAIN ThrPool(t).free
       THEN Apply(Undefined(St, "gpool_free: write outside the free stack"))
       ELSE TStep([gstk EXCEPT !.pools[Thr(t).gp].free[sp] = Thr(t).idx - sp], t,
                  [Thr(t) EXCEPT !.pc = "unlock", !.idx = @ - sp])

\* the assertions of mp_gpool_free after the lock, and its return
TFreeReturn(t) ==
  /\ At(t, "free_ret")
  /\ LET s1 == mp_assert(St, Thr(t).sp > 0, "gpool_free:sp>0")
     IN Apply(IF Ok(s1) THEN [s1 EXCEPT !.gstk.thr[t] = Returned(t, 0, Thr(t).held)]
              ELSE s1)

TAlloc     == \E t \in Threads : TAllocCall(t)
TRead      == \E t \in Threads : TAccess(t)
TLock      == \E t \in Threads : TAcquire(t)
TPop       == \E t \in Threads : TPopSp(t) \/ TPopInc(t) \/ TPopIdx(t)
TUnlock    == \E t \in Threads : TRelease(t)
TAllocated == \E t \in Threads : TAllocReturn(t)
TFree      == \E t \in Threads : TFreeCall(t)
TPush      == \E t \in Threads : TPushDec(t) \/ TPushDecW(t) \/ TPushSp(t) \/ TPushStore(t)
TFreed     == \E t \in Threads : TFreeReturn(t)

NextT ==
  \/ TStart
  \/ TAlloc
  \/ TRead
  \/ TLock
  \/ TPop
  \/ TUnlock
  \/ TAllocated
  \/ TFree
  \/ TPush
  \/ TFreed

SpecT == Init /\ [][NextT]_vars

\* the blocks of pool gp that are on its free stack
FreeBlocksOf(gp) ==
  {gp.block_count - (gp.free[i] + i) : i \in gp.free_sp..(gp.block_count - 1)}

\* the blocks of pool 1 that the threads own
ThreadBlocks ==
  {(a - gstk.pools[1].addr) \div gstk.pools[1].block_size :
     a \in UNION {Thr(t).held : t \in Threads}}

\* C33: when threads allocate from and free to the same gpool at the same time, no two
\* of them own the same block; whenever no thread is inside the lock the pool is what
\* the calls that left the lock give when made one after the other in that order, and
\* every call returns what it returns in that sequential order; when no call is in
\* progress every block but the first is owned by exactly one thread or is on the free
\* stack exactly once (none is lost); an assertion fails only if it fails in that
\* sequential order too
T_C33 ==
  /\ TRunning =>
       /\ \A t, u \in Threads : t # u => Thr(t).held \cap Thr(u).held = {}
       /\ (\A t \in Threads : Thr(t).pc \notin InLock) =>
             /\ gstk.pools = gstk.lin.pools
             /\ \A i \in 1..Len(gstk.pools) : gstk.pools[i].free_lock = 0
       /\ \A t \in Threads : (Thr(t).pc = "idle" /\ Thr(t).op # "") =>
             /\ Thr(t).ret = gstk.lin.res[t].ret
             /\ gstk.lin.res[t].status = "ok"
       /\ (\A t \in Threads : Thr(t).pc = "idle") =>
             LET gp == gstk.pools[1] IN
             /\ ThreadBlocks \cap FreeBlocksOf(gp) = {}
             /\ ThreadBlocks \cup FreeBlocksOf(gp) = 1..(gp.block_count - 1)
             /\ Cardinality(FreeBlocksOf(gp)) = gp.block_count - gp.free_sp
  /\ (gstk.thr # <<>> /\ status # "ok") =>
       /\ status = "assert"
       /\ \E t \in Threads : gstk.lin.res[t].status = "assert"

\* one thread is inside the lock, popping a block that the other thread freed before,
\* while that other thread waits at the lock to free the block it owns
W_C33 ==
  /\ TRunning
  /\ \E t, u \in Threads :
       /\ t # u
       /\ Thr(t).pc = "pop_idx" /\ ThrPool(t).free[Thr(t).sp] # 0
       /\ Thr(u).pc = "lock" /\ Thr(u).op = "free"

\* ---- threads that create gpools: mp_gpool_alloc in several threads ----------------
\* With threads, the list of gpools is the pointers of gstack_gpool.c: mp_gpools is the
\* head, next[a] is the field `next` of the pool at address a, and `pools` holds the
\* records of the pools in memory in the order they were set up, linked or not yet.
\* Every step of a thread makes one access to mp_gpools; mp_gpool_allocx is taken as one
\* step (its steps are those of the threads on one gpool above).

MaxBlocks == 2       \* stacks that one thread allocates

\* mp_atomic_cas_ptr that stores without comparing
mp_atomic_cas_ptr_blind(p, expected, desired) ==
  [ok |-> TRUE, p |-> desired, expected |-> expected]

\* mp_atomic_cas_ptr(tp, p, exp, des), atomic_compare_exchange_strong: store des if *p
\* equals *exp, else load *p into *exp
mp_atomic_cas_ptr(p, expected, desired) ==
  IF p = expected THEN [ok |-> TRUE, p |-> desired, expected |-> expected]
  ELSE [ok |-> FALSE, p |-> p, expected |-> p]

\* gp->next = v
SetNext(next, a, v) == [x \in (DOMAIN next) \cup {a} |-> IF x = a THEN v ELSE next[x]]

\* for (gp = mp_gpool_first(); gp != NULL; gp = mp_gpool_next(gp)), at most n rounds
RECURSIVE mp_gpool_walk(_, _, _)
mp_gpool_walk(g, a, n) ==
  IF a = 0 \/ n = 0 THEN <<>> ELSE <<a>> \o mp_gpool_walk(g, g.next[a], n - 1)

\* the addresses of the pools of the list, head first (one more than there are pools
\* in memory if the walk does not end)
GpoolList(g) == mp_gpool_walk(g, g.mp_gpools, Len(g.pools) + 1)

\* the pool at address a
PoolAt(g, a) == g.pools[CHOOSE i \in 1..Len(g.pools) : g.pools[i].addr = a]

\* mp_gpool_allocx over the list as the pointers give it
mp_gpool_allocx_linked(s) ==
  LET l == GpoolList(s.gstk)
      r == mp_gpool_allocx([s EXCEPT !.gstk.pools = [i \in 1..Len(l) |-> PoolAt(s.gstk, l[i])]])
      now(gp) == IF \E j \in 1..Len(l) : l[j] = gp.addr THEN PoolAt(r.gstk, gp.addr) ELSE gp
  IN [r EXCEPT !.gstk.pools = [i \in 1..Len(s.gstk.pools) |-> now(s.gstk.pools[i])]]

\* mp_gpool_alloc of thread t returns the stack at address full (0: NULL)
UReturn(g, t, full) ==
  TStep(g, t, Returned(t, full, IF full = 0 THEN Thr(t).held ELSE Thr(t).held \cup {full}))

\* the main thread initializes the library; then the threads start
UStart ==
  /\ status = "ok" /\ gstk.os_page_size = 0 /\ gstk.thr = <<>>
  /\ Apply([mp_gstack_init(St, <<CfgSmallPool>>, FALSE, FALSE) EXCEPT
              !.gstk.thr = [t \in Threads |-> NoThread]])

\* a thread calls mp_gpool_alloc: uint8_t* p = mp_gpool_allocx(stk, stk_size);
\* if (p != NULL) return p;
UAllocCall(t) ==
  /\ At(t, "idle") /\ Cardinality(Thr(t).held) < MaxBlocks
  /\ LET s1 == mp_gpool_allocx_linked(St) IN
       IF ~Ok(s1) THEN Apply(s1)
       ELSE IF s1.gstk.out.full # 0
         THEN TStep(s1.gstk, t, [NoThread EXCEPT !.op = "alloc", !.ret = s1.gstk.out.full,
                                   !.held = Thr(t).held \cup {s1.gstk.out.full}])
         ELSE TStep(s1.gstk, t, [NoThread EXCEPT !.pc = "reserve", !.op = "alloc",
                                   !.held = Thr(t).held])

\* mp_os_mem_reserve, mp_os_mem_commit, and mp_gpool_create up to the push: the fields
\* of the new pool, which no other thread sees yet
UReserve(t) ==
  /\ At(t, "reserve")
  /\ \E os \in {OsYes, [OsYes EXCEPT !.reserve = FALSE], [OsYes EXCEPT !.commit_meta = FALSE]} :
       LET poolsize == gstk.os_gpool_max_size
           s1 == mp_os_mmap_reserve(St, poolsize, os.reserve)
           p  == s1.gstk.out.full
           s2 == mp_os_mem_commit(s1, os.commit_meta)
           s3 == mp_gpool_create([s2 EXCEPT !.gstk.pools = <<>>], p, poolsize,
                                 gstk.os_gstack_size - gstk.os_gstack_gap, gstk.os_gstack_gap)
       IN IF p = 0 THEN UReturn(s1.gstk, t, 0)
          ELSE IF ~os.commit_meta THEN UReturn(mp_os_mem_free(s2, p).gstk, t, 0)
          ELSE IF ~Ok(s3) THEN Apply(s3)
          ELSE TStep([s3.gstk EXCEPT !.pools = s2.gstk.pools \o @], t,
                     [Thr(t) EXCEPT !.pc = "load", !.gp = p])

\* gp->next = mp_atomic_load_ptr(mp_gpool_t, &mp_gpools);
ULoad(t) ==
  /\ At(t, "load")
  /\ TStep([gstk EXCEPT !.next = SetNext(@, Thr(t).gp, gstk.mp_gpools)], t,
           [Thr(t) EXCEPT !.pc = "cas"])

\* one round of while (!mp_atomic_cas_ptr(mp_gpool_t, &mp_gpools, &gp->next, gp)) {};
\* after the round that succeeds mp_gpool_create returns
UCas(t) ==
  /\ At(t, "cas")
  /\ LET r == mp_atomic_cas_ptr(gstk.mp_gpools, gstk.next[Thr(t).gp], Thr(t).gp) IN
       TStep([gstk EXCEPT !.mp_gpools = r.p, !.next = SetNext(@, Thr(t).gp, r.expected)], t,
             [Thr(t) EXCEPT !.pc = IF r.ok THEN "retry" ELSE "cas"])

\* and try to allocate again: return mp_gpool_allocx(stk, stk_size);
URetry(t) ==
  /\ At(t, "retry")
  /\ LET s1 == mp_gpool_allocx_linked(St) IN
       IF ~Ok(s1) THEN Apply(s1) ELSE UReturn(s1.gstk, t, s1.gstk.out.full)

UAlloc   == \E t \in Threads : UAllocCall(t)
UCreate  == \E t \in Threads : UReserve(t)
UNext    == \E t \in Threads : ULoad(t)
UPush    == \E t \in Threads : UCas(t)
UAgain   == \E t \in Threads : URetry(t)

NextU ==
  \/ UStart
  \/ UAlloc
  \/ UCreate
  \/ UNext
  \/ UPush
  \/ UAgain

SpecU == Init /\ [][NextU]_vars

\* the pools that a thread is creating and has not pushed yet
Unpushed == {Thr(t).gp : t \in {u \in Threads : Thr(u).pc \in {"load", "cas"}}}

\* the pools whose mp_gpool_create has returned
Created == {gstk.pools[i].addr : i \in 1..Len(gstk.pools)} \ Unpushed

\* C34: when several threads create gpools at the same time, the list that starts at
\* mp_gpools ends (it is acyclic), holds no pool twice, and holds exactly the pools
\* whose creation has finished: once all creations have finished, every pool that was
\* created is in the list exactly once
T_C34 ==
  gstk.thr # <<>> =>
    LET l == GpoolList(gstk) IN
    /\ Len(l) <= Len(gstk.pools)
    /\ \A i, j \in 1..Len(l) : i # j => l[i] # l[j]
    /\ {l[i] : i \in 1..Len(l)} = Created
    /\ (\A t \in Threads : Thr(t).pc \notin {"load", "cas"}) =>
          Len(l) = Len(gstk.pools)

\* two threads have each created a gpool at the same time, in a build with assertions
\* (where a thread that finds the one pool of the list exhausted stops at the assertion
\* of mp_gpool_allocx and creates none), both are in the list, all calls have returned
W_C34 ==
  /\ TRunning /\ debug
  /\ \A t \in Threads : Thr(t).pc = "idle" /\ Thr(t).held # {}
  /\ Len(GpoolList(gstk)) = 2
  /\ gstk.next[gstk.mp_gpools] # 0

====
